---- MODULE Spec2Model ----
(***************************************************************************)
(* nanobanana-mcp: the dual-provider image generation adapter.             *)
(*                                                                         *)
(* The module models the MCP server's generate_image handler               *)
(* (handleGenerateImage, selectProvider), the two provider adapters        *)
(* (GeminiProvider, OpenRouterProvider: payload construction, the POST,    *)
(* response parsing, the catch at the adapter boundary), the aspect-ratio  *)
(* utilities (parseAspectRatio, getAspectRatioPrompt), the prompt composer *)
(* (buildPrompt, enhancePromptForScenario) and the file persister          *)
(* (saveImages, sanitizeFilename).                                         *)
(*                                                                         *)
(* JavaScript strings the code inspects character by character (the        *)
(* aspect-ratio token) are sequences of one-character strings; strings     *)
(* the code only concatenates or compares are TLA+ strings.                *)
(***************************************************************************)
EXTENDS Integers, Sequences, FiniteSets, TLC

VARIABLES
  geminiKey,          \* GeminiProvider.apiKey     (process.env.GEMINI_API_KEY)
  openrouterKey,      \* OpenRouterProvider.apiKey (process.env.OPENROUTER_API_KEY)
  pc,                 \* position of the call in progress
  caller,             \* "server" (handleGenerateImage), "direct" (a script calling an adapter) or "script" (a script calling saveImages)
  args,               \* ImageGenerationArgs of the call in progress
  provider,           \* the adapter in use: "gemini", "openrouter" or "none"
  aspectRatioConfig,  \* generateImage's local aspectRatioConfig
  parts,              \* the payload under construction (Gemini parts / OpenRouter content)
  imgIdx,             \* index of the next reference image of the Gemini loop
  sent,               \* the payloads POSTed to the backend by this call, in order
  outcome,            \* what the backend answered to the POST
  result,             \* the GenerationResult generateImage returned
  thrown,             \* the message of the Error that escaped to the caller
  clock,              \* the last time read by new Date(), in milliseconds
  writes,             \* the fs.writeFile calls that succeeded, in order
  saveArgs,           \* saveImages' parameters images and baseFilename
  saveIdx,            \* saveImages' loop counter, 1-based (the code's i + 1)
  savedFiles,         \* saveImages' local savedFiles
  attempted,          \* what became of each image the loop has dealt with
  suspended           \* the locals of a second request whose handler is waiting at an await

\* the state of the file persister
persistVars == <<clock, writes, saveArgs, saveIdx, savedFiles, attempted>>

vars == <<geminiKey, openrouterKey, pc, caller, args, provider,
          aspectRatioConfig, parts, imgIdx, sent, outcome, result, thrown,
          clock, writes, saveArgs, saveIdx, savedFiles, attempted, suspended>>

---------------------------------------------------------------------------
(* JavaScript values *)

\* the value of an absent optional string field
Undefined == "<undefined>"

\* the value of an absent optional field whose strings are character sequences
UndefinedSeq == <<Undefined>>

\* JavaScript truthiness of an optional string: undefined and '' are falsy
Truthy(s) == s # Undefined /\ s # ""

TruthySeq(s) == s # UndefinedSeq /\ s # <<>>

\* JSON null
JsNull == [jsnull |-> TRUE]

\* property names every object literal inherits from Object.prototype:
\* obj[key] is truthy for them although the literal does not list them
ObjectPrototypeKeys ==
  {"constructor", "__proto__", "toString", "valueOf", "hasOwnProperty",
   "isPrototypeOf", "propertyIsEnumerable", "toLocaleString",
   "__defineGetter__", "__defineSetter__", "__lookupGetter__", "__lookupSetter__"}

\* String(Object.prototype[key]) for the inherited function properties
NativeFunctionText(key) ==
  IF key = "constructor" THEN "function Object() { [native code] }"
  ELSE IF key = "__proto__" THEN "[object Object]"
  ELSE "function " \o key \o "() { [native code] }"

---------------------------------------------------------------------------
(* Character-level string functions *)

UpperChars == <<"A","B","C","D","E","F","G","H","I","J","K","L","M",
                "N","O","P","Q","R","S","T","U","V","W","X","Y","Z">>
LowerChars == <<"a","b","c","d","e","f","g","h","i","j","k","l","m",
                "n","o","p","q","r","s","t","u","v","w","x","y","z">>
DigitChars == <<"0","1","2","3","4","5","6","7","8","9">>
WhiteSpace == {" ", "\t", "\n"}

IsDigit(c) == \E d \in 1..Len(DigitChars) : DigitChars[d] = c

DigitValue(c) == (CHOOSE d \in 1..Len(DigitChars) : DigitChars[d] = c) - 1

ToLowerChar(c) ==
  IF \E u \in 1..Len(UpperChars) : UpperChars[u] = c
  THEN LowerChars[CHOOSE u \in 1..Len(UpperChars) : UpperChars[u] = c]
  ELSE c

\* String.prototype.toLowerCase
toLowerCase(s) == [k \in 1..Len(s) |-> ToLowerChar(s[k])]

RECURSIVE trimStart(_)
trimStart(s) ==
  IF s # <<>> /\ Head(s) \in WhiteSpace THEN trimStart(Tail(s)) ELSE s

RECURSIVE trimEnd(_)
trimEnd(s) ==
  IF s # <<>> /\ s[Len(s)] \in WhiteSpace
  THEN trimEnd(SubSeq(s, 1, Len(s) - 1)) ELSE s

\* String.prototype.trim
trim(s) == trimEnd(trimStart(s))

\* the JavaScript string a character sequence stands for
RECURSIVE Str(_)
Str(s) == IF s = <<>> THEN "" ELSE Head(s) \o Str(Tail(s))

\* /^\d+$/
AllDigits(s) == s # <<>> /\ \A k \in 1..Len(s) : IsDigit(s[k])

\* parseInt of a string of decimal digits
RECURSIVE parseInt(_)
parseInt(s) ==
  IF s = <<>> THEN 0
  ELSE 10 * parseInt(SubSeq(s, 1, Len(s) - 1)) + DigitValue(s[Len(s)])

\* the decimal digits of a natural number
RECURSIVE Digits(_)
Digits(n) ==
  IF n < 10 THEN <<DigitChars[n + 1]>>
  ELSE Digits(n \div 10) \o <<DigitChars[(n % 10) + 1]>>

\* String.prototype.startsWith
startsWith(s, prefix) ==
  Len(s) >= Len(prefix) /\ SubSeq(s, 1, Len(prefix)) = prefix

\* the 1-based position of the first occurrence of sub in s at or after
\* position from, 0 when there is none
FirstOccurrence(s, sub, from) ==
  LET hits == {k \in from..(Len(s) - Len(sub) + 1) : SubSeq(s, k, k + Len(sub) - 1) = sub}
  IN  IF hits = {} THEN 0 ELSE CHOOSE k \in hits : \A j \in hits : k <= j

\* String.prototype.includes
includes(s, sub) == FirstOccurrence(s, sub, 1) # 0

\* String.prototype.indexOf (0-based, -1 when absent)
indexOf(s, sub) == FirstOccurrence(s, sub, 1) - 1

\* String.prototype.substring(start, end): arguments below 0 count as 0,
\* above the length as the length, and are swapped when start > end
substring(s, start, end) ==
  LET clamp(n) == IF n < 0 THEN 0 ELSE IF n > Len(s) THEN Len(s) ELSE n
      lo == IF clamp(start) <= clamp(end) THEN clamp(start) ELSE clamp(end)
      hi == IF clamp(start) <= clamp(end) THEN clamp(end) ELSE clamp(start)
  IN  SubSeq(s, lo + 1, hi)

\* a replace that leaves the data-URI prefix in place
KeepDataUriPrefix(s) == s

\* s.replace(/^data:.*?;base64,/, ''): the shortest prefix 'data:...;base64,'
\* is removed ('.' does not match a line break)
StripDataUriPrefix(s) ==
  LET marker == <<";", "b", "a", "s", "e", "6", "4", ",">>
      at     == FirstOccurrence(s, marker, 6)
  IN  IF /\ startsWith(s, <<"d", "a", "t", "a", ":">>)
         /\ at # 0
         /\ \A k \in 6..(at - 1) : s[k] # "\n"
      THEN SubSeq(s, at + Len(marker), Len(s))
      ELSE s

---------------------------------------------------------------------------
(* src/utils/aspect-ratio.ts *)

\* the side the larger dimension of a custom ratio is pinned to
MaxDimension == 1024

Config(w, h, n) == [tag |-> "config", width |-> w, height |-> h, name |-> n, nan |-> FALSE]

\* parseAspectRatio's null
NullConfig == [tag |-> "null"]

\* what ASPECT_RATIOS[key] evaluates to for a key inherited from
\* Object.prototype: the Object constructor or Object.prototype itself;
\* neither has a width or a height, Object.name is 'Object'
InheritedConfig(key) ==
  IF key = "__proto__" THEN [tag |-> "Object.prototype", name |-> Undefined]
  ELSE IF key = "constructor" THEN [tag |-> "Object", name |-> "Object"]
  ELSE [tag |-> "Function", name |-> key]

ASPECT_RATIOS ==
  [k \in {"1:1", "square", "16:9", "landscape", "9:16", "portrait", "4:3", "3:4",
          "16:10", "widescreen", "21:9", "ultrawide", "2:1", "panoramic"} |->
     CASE k \in {"1:1", "square"}        -> Config(1024, 1024, "square")
       [] k \in {"16:9", "landscape"}    -> Config(1024, 576, "landscape")
       [] k \in {"9:16", "portrait"}     -> Config(576, 1024, "portrait")
       [] k = "4:3"                      -> Config(1024, 768, "4:3")
       [] k = "3:4"                      -> Config(768, 1024, "3:4")
       [] k \in {"16:10", "widescreen"}  -> Config(1024, 640, "widescreen")
       [] k \in {"21:9", "ultrawide"}    -> Config(1024, 439, "ultrawide")
       [] k \in {"2:1", "panoramic"}     -> Config(1024, 512, "panoramic")]

\* ratio.match(/^(\d+):(\d+)$/): the position of the colon, 0 when no match
ColonOfRatio(s) ==
  IF \E k \in 1..Len(s) : /\ s[k] = ":"
                          /\ AllDigits(SubSeq(s, 1, k - 1))
                          /\ AllDigits(SubSeq(s, k + 1, Len(s)))
  THEN CHOOSE k \in 1..Len(s) : /\ s[k] = ":"
                                /\ AllDigits(SubSeq(s, 1, k - 1))
                                /\ AllDigits(SubSeq(s, k + 1, Len(s)))
  ELSE 0

\* Math.round of the exact quotient n / d (d > 0): nearest integer, a tie
\* goes up
MathRound(n, d) == (2 * n + d) \div (2 * d)

\* Pairs <<width, height>> of the modelled inputs for which the quotient
\* 1024 * height / width is exactly k + 1/2 and the double evaluation of
\* 1024 / (width / height) falls just below the tie (width / height is not
\* a binary fraction and is rounded up), so that Math.round yields k.
DoubleBelowTie == {<<2048, 93>>, <<2048, 99>>}

\* Math.floor in place of Math.round
RoundLandscapeFloor(width, height) == (MaxDimension * height) \div width

\* Math.round(1024 / aspectRatio) with aspectRatio = width / height >= 1
RoundLandscape(width, height) ==
  IF <<width, height>> \in DoubleBelowTie
  THEN (MaxDimension * height) \div width
  ELSE MathRound(MaxDimension * height, width)

\* Math.round(1024 * aspectRatio) with aspectRatio = width / height < 1;
\* a tie here is a binary fraction and is computed exactly
RoundPortrait(width, height) == MathRound(MaxDimension * width, height)

\* the custom "W:H" branch of parseAspectRatio
CustomRatio(ratio) ==
  LET colon  == ColonOfRatio(ratio)
      width  == parseInt(SubSeq(ratio, 1, colon - 1))
      height == parseInt(SubSeq(ratio, colon + 1, Len(ratio)))
  IN  IF height = 0 /\ width = 0
      THEN \* aspectRatio is NaN: the portrait branch, finalWidth is NaN
           [tag |-> "config", width |-> 0, height |-> MaxDimension,
            name |-> Str(ratio), nan |-> TRUE]
      ELSE IF height = 0
      THEN \* aspectRatio is Infinity
           Config(MaxDimension, 0, Str(ratio))
      ELSE IF width >= height
      THEN Config(MaxDimension, RoundLandscape(width, height), Str(ratio))
      ELSE Config(RoundPortrait(width, height), MaxDimension, Str(ratio))

\* a lookup that forgets to fold the case of the token
parseAspectRatioCaseSensitive(ratio) ==
  IF ~TruthySeq(ratio) THEN NullConfig
  ELSE LET normalized == Str(trim(ratio))
       IN  IF normalized \in DOMAIN ASPECT_RATIOS THEN ASPECT_RATIOS[normalized]
           ELSE IF normalized \in ObjectPrototypeKeys THEN InheritedConfig(normalized)
           ELSE IF ColonOfRatio(ratio) # 0 THEN CustomRatio(ratio)
           ELSE NullConfig

parseAspectRatio(ratio) ==
  IF ~TruthySeq(ratio) THEN NullConfig
  ELSE LET normalized == Str(trim(toLowerCase(ratio)))
       IN  IF normalized \in DOMAIN ASPECT_RATIOS THEN ASPECT_RATIOS[normalized]
           ELSE IF normalized \in ObjectPrototypeKeys THEN InheritedConfig(normalized)
           ELSE IF ColonOfRatio(ratio) # 0 THEN CustomRatio(ratio)
           ELSE NullConfig

\* `${config.width}` and `${config.height}`
WidthText(config) ==
  IF config.tag # "config" THEN "undefined"
  ELSE IF config.nan THEN "NaN" ELSE ToString(config.width)

HeightText(config) ==
  IF config.tag # "config" THEN "undefined" ELSE ToString(config.height)

getAspectRatioPrompt(config) ==
  CASE config.name = "square"     -> "square format (1:1 aspect ratio)"
    [] config.name = "landscape"  -> "landscape orientation (16:9 aspect ratio)"
    [] config.name = "portrait"   -> "portrait orientation (9:16 aspect ratio)"
    [] config.name = "widescreen" -> "widescreen format (16:10 aspect ratio)"
    [] config.name = "ultrawide"  -> "ultrawide format (21:9 aspect ratio)"
    [] config.name = "panoramic"  -> "panoramic format (2:1 aspect ratio)"
    [] config.name \in ObjectPrototypeKeys -> NativeFunctionText(config.name)
    [] OTHER -> WidthText(config) \o "x" \o HeightText(config) \o " aspect ratio"

---------------------------------------------------------------------------
(* The prompt composer of the two adapters *)

\* the table of enhancePromptForScenario (the same in both adapters)
ScenarioEnhancement(scenario) ==
  CASE scenario = "style-transfer" ->
         "Apply the artistic style from the reference image(s) to: "
    [] scenario = "character-design" ->
         "Create a character design sheet showing multiple views and poses for: "
    [] scenario = "pose-modification" ->
         "Modify the pose of the subject while maintaining their appearance: "
    [] scenario = "background-expansion" ->
         "Expand or modify the background while keeping the main subject: "
    [] scenario = "multi-reference" ->
         "Combine elements from all reference images to create: "
    [] scenario = "cross-view" ->
         "Generate different viewing angles or perspectives of: "
    [] scenario = "ar-overlay" ->
         "Add augmented reality information overlays to: "
    [] scenario = "photo-enhancement" ->
         "Enhance and improve the quality of: "
    [] scenario \in ObjectPrototypeKeys -> NativeFunctionText(scenario)
    [] OTHER -> ""

GeminiEnhancePromptForScenario(prompt, scenario) ==
  ScenarioEnhancement(scenario) \o prompt

OpenRouterEnhancePromptForScenario(prompt, scenario) ==
  ScenarioEnhancement(scenario) \o prompt

\* the clauses appended after the (enhanced) prompt
\* a composer that phrases the clause for the named descriptors only
AspectClauseNamedOnly(config) ==
  IF config.tag # "null" /\ config.name \in {"square", "landscape", "portrait",
                                             "widescreen", "ultrawide", "panoramic"}
  THEN " Generate the image to fill the entire " \o getAspectRatioPrompt(config)
       \o " canvas provided by the blank image."
  ELSE ""

AspectClause(config) ==
  IF config.tag # "null"
  THEN " Generate the image to fill the entire " \o getAspectRatioPrompt(config)
       \o " canvas provided by the blank image."
  ELSE ""

NegativeClause(a) ==
  IF Truthy(a.negative_prompt) THEN " Avoid: " \o a.negative_prompt \o "." ELSE ""

\* sample_count 0 stands for an absent (or zero) sample_count: both are falsy
SampleWrap(a, prompt) ==
  IF a.sample_count # 0 /\ a.sample_count > 1
  THEN "Generate " \o ToString(a.sample_count) \o " variations of: " \o prompt
  ELSE prompt

GeminiBuildPrompt(a, config) ==
  LET enhanced == IF Truthy(a.scenario)
                  THEN GeminiEnhancePromptForScenario(a.prompt, a.scenario)
                  ELSE a.prompt
  IN  SampleWrap(a, enhanced \o AspectClause(config) \o NegativeClause(a))

OpenRouterBuildPrompt(a, config) ==
  LET enhanced == IF Truthy(a.scenario)
                  THEN OpenRouterEnhancePromptForScenario(a.prompt, a.scenario)
                  ELSE a.prompt
  IN  SampleWrap(a, enhanced \o AspectClause(config) \o NegativeClause(a))

buildPrompt(p, a, config) ==
  IF p = "gemini" THEN GeminiBuildPrompt(a, config) ELSE OpenRouterBuildPrompt(a, config)

---------------------------------------------------------------------------
(* The canvas synthesizer *)

\* the pre-generated white images of generateBlankImageSync (their PNG headers)
CannedImage(key) ==
  CASE key = "square"     -> [source |-> "canned", key |-> key, width |-> 100, height |-> 100]
    [] key = "landscape"  -> [source |-> "canned", key |-> key, width |-> 160, height |-> 90]
    [] key = "portrait"   -> [source |-> "canned", key |-> key, width |-> 90, height |-> 160]
    [] key = "widescreen" -> [source |-> "canned", key |-> key, width |-> 160, height |-> 100]
    [] OTHER              -> [source |-> "canned", key |-> "default", width |-> 100, height |-> 100]

\* config.width / config.height is a finite number
RatioIsFinite(config) == config.tag = "config" /\ ~config.nan /\ config.height # 0

\* the imageKey chosen by generateBlankImageSync; a comparison with NaN
\* (no width, no height, or 0 / 0) is false, width / 0 is Infinity
BlankImageKey(config) ==
  LET w == IF config.tag = "config" THEN config.width ELSE 0
      h == IF config.tag = "config" THEN config.height ELSE 0
      fin == RatioIsFinite(config)
      inf == config.tag = "config" /\ ~config.nan /\ h = 0 /\ w > 0
      diff == IF w >= h THEN w - h ELSE h - w
  IN  IF config.name = "square" \/ (fin /\ 10 * diff < h) THEN "square"
      ELSE IF config.name = "landscape" \/ (fin /\ 2 * w > 3 * h /\ w < 2 * h) THEN "landscape"
      ELSE IF config.name = "portrait" \/ (fin /\ 10 * w < 7 * h) THEN "portrait"
      ELSE IF config.name = "widescreen" \/ (fin /\ 10 * w > 14 * h /\ 10 * w < 17 * h)
           THEN "widescreen"
      ELSE IF (fin /\ w > h) \/ inf THEN "landscape"
      ELSE "portrait"

generateBlankImageSync(config) == CannedImage(BlankImageKey(config))

\* Jimp can only build an image with positive integer dimensions
JimpCanBuild(config) ==
  config.tag = "config" /\ ~config.nan /\ config.width > 0 /\ config.height > 0

\* generateLargeBlankImage (the same in both adapters): the Jimp image of the
\* exact dimensions, or the canned image when Jimp throws
generateLargeBlankImage(config, jimpOk) ==
  IF jimpOk
  THEN [source |-> "jimp", key |-> "none", width |-> config.width, height |-> config.height]
  ELSE generateBlankImageSync(config)

---------------------------------------------------------------------------
(* Payload construction *)

PngMime == <<"i", "m", "a", "g", "e", "/", "p", "n", "g">>

DataUri(mime, data) ==
  <<"d", "a", "t", "a", ":">> \o mime \o <<";", "b", "a", "s", "e", "6", "4", ",">> \o data

\* Gemini parts
GeminiTextPart(text) == [origin |-> "text", index |-> 0, text |-> text]

GeminiImagePart(k, mime, data) ==
  [origin |-> "image", index |-> k, inline_data |-> [mime_type |-> mime, data |-> data]]

GeminiCanvasPart(blank) ==
  [origin |-> "canvas", index |-> 0, inline_data |-> [mime_type |-> PngMime, png |-> blank]]

\* OpenRouter content blocks
OpenRouterTextBlock(text) == [origin |-> "text", index |-> 0, type |-> "text", text |-> text]

OpenRouterImageBlock(k, url) ==
  [origin |-> "image", index |-> k, type |-> "image_url", image_url |-> [url |-> url]]

OpenRouterCanvasBlock(blank) ==
  [origin |-> "canvas", index |-> 0, type |-> "image_url", image_url |-> [png |-> blank]]

\* the blank image inserted right after the text, before the reference images
PushCanvasBeforeImages(p, payload, blank) ==
  <<Head(payload)>>
  \o <<IF p = "gemini" THEN GeminiCanvasPart(blank) ELSE OpenRouterCanvasBlock(blank)>>
  \o Tail(payload)

\* parts.push / content.push of the blank image, after the reference images
PushCanvas(p, payload, blank) ==
  Append(payload, IF p = "gemini" THEN GeminiCanvasPart(blank) ELSE OpenRouterCanvasBlock(blank))

\* the block OpenRouter's loop pushes for the k-th reference image (<<>> if none)
\* a loop that emits a block for every entry, sourced or not
OpenRouterImageBlocksNoSkip(image, k) ==
  <<OpenRouterImageBlock(k,
      IF TruthySeq(image.base64)
      THEN DataUri(IF TruthySeq(image.mimeType) THEN image.mimeType ELSE PngMime,
                   StripDataUriPrefix(image.base64))
      ELSE image.url)>>

OpenRouterImageBlocks(image, k) ==
  IF TruthySeq(image.base64) \/ TruthySeq(image.url)
  THEN <<OpenRouterImageBlock(k,
           IF TruthySeq(image.base64)
           THEN DataUri(IF TruthySeq(image.mimeType) THEN image.mimeType ELSE PngMime,
                        StripDataUriPrefix(image.base64))
           ELSE image.url)>>
  ELSE <<>>

\* the content blocks of reference images k..Len(images), in loop order
RECURSIVE OpenRouterReferenceBlocks(_, _)
OpenRouterReferenceBlocks(images, k) ==
  IF k > Len(images) THEN <<>>
  ELSE OpenRouterImageBlocks(images[k], k) \o OpenRouterReferenceBlocks(images, k + 1)

\* the source the Gemini loop takes the reference image from
GeminiImageSource(image) ==
  IF TruthySeq(image.base64) THEN "base64"
  ELSE IF TruthySeq(image.path) THEN "path"
  ELSE IF TruthySeq(image.url) THEN "url"
  ELSE "none"

---------------------------------------------------------------------------
(* GenerationResult *)

\* a catch block that reads a property the Error does not have
GeminiFailureNoMessage(a, message) ==
  [success |-> FALSE, provider |-> "Gemini Direct",
   model |-> "gemini-2.5-flash-image-preview", prompt |-> a.prompt, error |-> Undefined]

GeminiFailure(a, message) ==
  [success |-> FALSE, provider |-> "Gemini Direct",
   model |-> "gemini-2.5-flash-image-preview", prompt |-> a.prompt, error |-> message]

OpenRouterFailure(a, message) ==
  [success |-> FALSE, provider |-> "OpenRouter",
   model |-> "google/gemini-2.5-flash-image-preview", prompt |-> a.prompt, error |-> message]

Failure(p, a, message) ==
  IF p = "gemini" THEN GeminiFailure(a, message) ELSE OpenRouterFailure(a, message)

NoResult == [none |-> TRUE]

---------------------------------------------------------------------------
(* Response parsing *)

\* an absent object-valued field
UndefinedObject == [undefined |-> TRUE]

\* mime.split('/')[1]: the text between the first and the second '/',
\* undefined when there is no '/'
SplitSlashSecond(s) ==
  LET first == FirstOccurrence(s, <<"/">>, 1)
      second == IF first = 0 THEN 0 ELSE FirstOccurrence(s, <<"/">>, first + 1)
  IN  IF first = 0 THEN UndefinedSeq
      ELSE SubSeq(s, first + 1, IF second = 0 THEN Len(s) ELSE second - 1)

PngFormat == <<"p", "n", "g">>

\* the image record the Gemini adapter builds from a part with inline_data
GeminiGeneratedImage(inline) ==
  LET hasMime == "mime_type" \in DOMAIN inline /\ TruthySeq(inline.mime_type)
      sub == IF hasMime THEN SplitSlashSecond(inline.mime_type) ELSE UndefinedSeq
  IN  [type |-> "base64",
       data |-> DataUri(IF hasMime THEN inline.mime_type ELSE PngMime, inline.data),
       format |-> IF TruthySeq(sub) THEN sub ELSE PngFormat]

RECURSIVE GeminiPartImages(_)
GeminiPartImages(ps) ==
  IF ps = <<>> THEN <<>>
  ELSE (IF "inline_data" \in DOMAIN Head(ps)
        THEN <<GeminiGeneratedImage(Head(ps).inline_data)>> ELSE <<>>)
       \o GeminiPartImages(Tail(ps))

CandidateHasParts(c) ==
  "content" \in DOMAIN c /\ c.content # JsNull /\ "parts" \in DOMAIN c.content

RECURSIVE GeminiCandidateImages(_)
GeminiCandidateImages(cs) ==
  IF cs = <<>> THEN <<>>
  ELSE (IF CandidateHasParts(Head(cs))
        THEN GeminiPartImages(Head(cs).content.parts) ELSE <<>>)
       \o GeminiCandidateImages(Tail(cs))

\* the extraction loop reads a property of null (a TypeError)
GeminiParseThrows(data) ==
  \/ data = JsNull
  \/ /\ "candidates" \in DOMAIN data
     /\ \E k \in 1..Len(data.candidates) :
          LET c == data.candidates[k]
          IN  \/ c = JsNull
              \/ /\ CandidateHasParts(c)
                 /\ \E j \in 1..Len(c.content.parts) : c.content.parts[j] = JsNull

GeminiSuccess(a, data) ==
  [success |-> TRUE, provider |-> "Gemini Direct",
   model |-> "gemini-2.5-flash-image-preview", prompt |-> a.prompt,
   images |-> IF "candidates" \in DOMAIN data
              THEN GeminiCandidateImages(data.candidates) ELSE <<>>,
   message |-> "Image generated successfully",
   usage |-> IF "usageMetadata" \in DOMAIN data THEN data.usageMetadata
             ELSE UndefinedObject]

\* generateImage without the response.ok check: the body of an error
\* response is parsed like any other
GeminiParseResponseNoOkCheck(a, o) ==
  CASE o.kind = "network" -> GeminiFailure(a, o.message)
    [] o.kind = "status" -> GeminiSuccess(a, [error |-> o.text])
    [] o.kind = "invalid-json" -> GeminiFailure(a, o.message)
    [] o.kind = "json" ->
         IF GeminiParseThrows(o.data)
         THEN GeminiFailure(a, "Cannot read properties of null")
         ELSE GeminiSuccess(a, o.data)

\* what GeminiProvider.generateImage returns once the POST has settled
GeminiParseResponse(a, o) ==
  CASE o.kind = "network" -> GeminiFailure(a, o.message)
    [] o.kind = "status" ->
         GeminiFailure(a, "Gemini API error: " \o ToString(o.status) \o " - " \o o.text)
    [] o.kind = "invalid-json" -> GeminiFailure(a, o.message)
    [] o.kind = "json" ->
         IF GeminiParseThrows(o.data)
         THEN GeminiFailure(a, "Cannot read properties of null")
         ELSE GeminiSuccess(a, o.data)

\* url.substring(11, url.indexOf(';')) || 'png'
DataUriFormat(url) ==
  LET f == substring(url, 11, indexOf(url, <<";">>))
  IN  IF f # <<>> THEN f ELSE PngFormat

\* the image record OpenRouter builds for an entry of message.images
OpenRouterGeneratedImage(url) ==
  IF startsWith(url, <<"d", "a", "t", "a", ":">>)
  THEN [type |-> "base64", data |-> url, format |-> DataUriFormat(url)]
  ELSE [type |-> "url", url |-> url]

ImgHasUrl(img) ==
  /\ "image_url" \in DOMAIN img /\ img.image_url # JsNull
  /\ "url" \in DOMAIN img.image_url /\ TruthySeq(img.image_url.url)

RECURSIVE OpenRouterFieldImages(_)
OpenRouterFieldImages(imgs) ==
  IF imgs = <<>> THEN <<>>
  ELSE (IF ImgHasUrl(Head(imgs))
        THEN <<OpenRouterGeneratedImage(Head(imgs).image_url.url)>> ELSE <<>>)
       \o OpenRouterFieldImages(Tail(imgs))

\* content.match(/https?:\/\/[^\s]+/): the first match, <<>> when none
UrlMatch(s) ==
  LET http  == <<"h", "t", "t", "p", ":", "/", "/">>
      https == <<"h", "t", "t", "p", "s", ":", "/", "/">>
      SchemeLen(k) ==
        IF Len(s) >= k + Len(http) - 1 /\ SubSeq(s, k, k + Len(http) - 1) = http
        THEN Len(http)
        ELSE IF Len(s) >= k + Len(https) - 1 /\ SubSeq(s, k, k + Len(https) - 1) = https
        THEN Len(https) ELSE 0
      Starts == {k \in 1..Len(s) :
                   /\ SchemeLen(k) # 0
                   /\ k + SchemeLen(k) <= Len(s)
                   /\ s[k + SchemeLen(k)] \notin WhiteSpace}
  IN  IF Starts = {} THEN <<>>
      ELSE LET k == CHOOSE x \in Starts : \A y \in Starts : x <= y
               Ends == {e \in k..Len(s) : \A j \in k..e : s[j] \notin WhiteSpace}
               e == CHOOSE x \in Ends : \A y \in Ends : y <= x
           IN  SubSeq(s, k, e)

\* the fallback scan of message.content (a string)
OpenRouterContentImages(content) ==
  IF startsWith(content, <<"d", "a", "t", "a", ":", "i", "m", "a", "g", "e">>)
  THEN <<[type |-> "base64", data |-> content, format |-> DataUriFormat(content)]>>
  ELSE IF includes(content, <<"h", "t", "t", "p">>) /\ UrlMatch(content) # <<>>
  THEN <<[type |-> "url", url |-> UrlMatch(content)]>>
  ELSE <<>>

\* message.content is a non-empty string
ContentIsText(message) ==
  /\ "content" \in DOMAIN message /\ "string" \in DOMAIN message.content
  /\ message.content.string # <<>>

\* message.content is truthy but not a string (an array of content parts)
ContentIsArray(message) ==
  "content" \in DOMAIN message /\ "array" \in DOMAIN message.content

HasImagesField(message) ==
  "images" \in DOMAIN message /\ Len(message.images) > 0

\* data.choices[0].message is read from undefined or null (a TypeError)
OpenRouterNoMessage(data) ==
  \/ data = JsNull
  \/ "choices" \notin DOMAIN data
  \/ data.choices = <<>>
  \/ data.choices[1] = JsNull
  \/ "message" \notin DOMAIN data.choices[1]
  \/ data.choices[1].message = JsNull

\* a parser that trusts the images field whenever the message has one
OpenRouterImagesFieldOnly(message) ==
  IF "images" \in DOMAIN message
  THEN OpenRouterFieldImages(message.images)
  ELSE IF ContentIsText(message)
  THEN OpenRouterContentImages(message.content.string)
  ELSE <<>>

OpenRouterImages(message) ==
  LET fromField == IF HasImagesField(message)
                   THEN OpenRouterFieldImages(message.images) ELSE <<>>
  IN  IF fromField = <<>> /\ ContentIsText(message)
      THEN OpenRouterContentImages(message.content.string)
      ELSE fromField

OpenRouterParseThrows(data) ==
  \/ OpenRouterNoMessage(data)
  \/ LET message == data.choices[1].message
     IN  \/ /\ HasImagesField(message)
            /\ \E k \in 1..Len(message.images) : message.images[k] = JsNull
         \/ /\ (IF HasImagesField(message)
                THEN OpenRouterFieldImages(message.images) ELSE <<>>) = <<>>
            /\ ContentIsArray(message)

OpenRouterSuccess(a, data) ==
  LET message == data.choices[1].message
  IN  [success |-> TRUE, provider |-> "OpenRouter",
       model |-> "google/gemini-2.5-flash-image-preview", prompt |-> a.prompt,
       images |-> OpenRouterImages(message),
       message |-> IF ContentIsText(message) THEN Str(message.content.string)
                   ELSE IF ContentIsArray(message) THEN "[object Array]"
                   ELSE "Image generated successfully",
       usage |-> IF "usage" \in DOMAIN data THEN data.usage ELSE UndefinedObject]

\* what OpenRouterProvider.generateImage returns once the POST has settled
OpenRouterParseResponse(a, o) ==
  CASE o.kind = "network" -> OpenRouterFailure(a, o.message)
    [] o.kind = "status" ->
         OpenRouterFailure(a, "OpenRouter API error: " \o ToString(o.status) \o " - " \o o.text)
    [] o.kind = "invalid-json" -> OpenRouterFailure(a, o.message)
    [] o.kind = "json" ->
         IF OpenRouterParseThrows(o.data)
         THEN OpenRouterFailure(a, "Cannot read properties of undefined")
         ELSE OpenRouterSuccess(a, o.data)

ParseResponse(p, a, o) ==
  IF p = "gemini" THEN GeminiParseResponse(a, o) ELSE OpenRouterParseResponse(a, o)

---------------------------------------------------------------------------
(* The server: provider selection *)

\* ImageProvider.isAvailable: !!this.apiKey
isAvailable(key) == Truthy(key)

\* a selector whose 'auto' order is OpenRouter before Gemini
selectProviderOpenRouterFirst(preference, gKey, oKey) ==
  IF preference = "gemini" /\ isAvailable(gKey) THEN "gemini"
  ELSE IF preference = "openrouter" /\ isAvailable(oKey) THEN "openrouter"
  ELSE IF preference = "auto" \/ ~Truthy(preference)
  THEN IF isAvailable(oKey) THEN "openrouter"
       ELSE IF isAvailable(gKey) THEN "gemini"
       ELSE "none"
  ELSE "none"

\* a selector that falls back to any available backend
selectProviderFallback(preference, gKey, oKey) ==
  IF preference = "gemini" /\ isAvailable(gKey) THEN "gemini"
  ELSE IF preference = "openrouter" /\ isAvailable(oKey) THEN "openrouter"
  ELSE IF isAvailable(gKey) THEN "gemini"
  ELSE IF isAvailable(oKey) THEN "openrouter"
  ELSE "none"

\* NanoBananaMCPServer.selectProvider; "none" is null
selectProvider(preference, gKey, oKey) ==
  IF preference = "gemini" /\ isAvailable(gKey) THEN "gemini"
  ELSE IF preference = "openrouter" /\ isAvailable(oKey) THEN "openrouter"
  ELSE IF preference = "auto" \/ ~Truthy(preference)
  THEN IF isAvailable(gKey) THEN "gemini"
       ELSE IF isAvailable(oKey) THEN "openrouter"
       ELSE "none"
  ELSE "none"

KeyOf(p) == IF p = "gemini" THEN geminiKey ELSE openrouterKey

---------------------------------------------------------------------------
(* Bounds and input sets *)

\* the longest images list of a request
MaxImages == 2

\* the largest term of a generated custom ratio "a:b"
MaxTerm == 12

\* no further saving call is made once this many files have been written
MaxWrites == 2

\* the latest time new Date() reads, in milliseconds after the first read
MaxClock == 1

KeyValues == {Undefined, "", "sk-key"}

Preferences == {Undefined, "", "auto", "gemini", "openrouter", "replicate"}

NoImageField == [path |-> UndefinedSeq, url |-> UndefinedSeq,
                 base64 |-> UndefinedSeq, mimeType |-> UndefinedSeq]

RefPath == <<".", "/", "r", "e", "f", ".", "p", "n", "g">>
RefUrl == <<"h", "t", "t", "p", "s", ":", "/", "/", "h", "/", "r", ".", "p", "n", "g">>
RefBase64 == <<"Q", "U", "J", "D">>
RefDataUri == <<"d", "a", "t", "a", ":", "i", "m", "a", "g", "e", "/", "j", "p", "e", "g", ";", "b", "a", "s", "e", "6", "4", ",", "Q", "U", "J", "D">>
JpegMime == <<"i", "m", "a", "g", "e", "/", "j", "p", "e", "g">>

\* reference images: no source at all, one source, and all three at once
ImageInputs ==
  { NoImageField,
    [NoImageField EXCEPT !.base64 = RefBase64],
    [NoImageField EXCEPT !.path = RefPath],
    [NoImageField EXCEPT !.url = RefUrl],
    [path |-> RefPath, url |-> RefUrl, base64 |-> RefDataUri, mimeType |-> JpegMime] }

RECURSIVE SeqsUpTo(_, _)
SeqsUpTo(S, n) ==
  IF n = 0 THEN {<<>>}
  ELSE LET shorter == SeqsUpTo(S, n - 1)
       IN  shorter \cup {Append(s, x) : s \in shorter, x \in S}

ImageLists == SeqsUpTo(ImageInputs, MaxImages)

\* aspect tokens of the server's requests
ServerRatios ==
  { UndefinedSeq, <<"s", "q", "u", "a", "r", "e">>, <<"5", ":", "4">>, <<"b", "a", "n", "a", "n", "a">>, <<"c", "o", "n", "s", "t", "r", "u", "c", "t", "o", "r">> }

\* the README's limit on reference images ('max 3')
MaxReferenceImages == 3

\* a list of one reference image more than the documented limit
TooManyImages == [k \in 1..(MaxReferenceImages + 1) |-> [NoImageField EXCEPT !.base64 = RefBase64]]

ServerArgs ==
  [prompt : {"X"}, images : ImageLists, provider : {Undefined, "gemini", "openrouter"},
   scenario : {Undefined}, aspect_ratio : ServerRatios,
   negative_prompt : {Undefined}, sample_count : {0},
   save_to_file : {FALSE}, filename : {UndefinedSeq}]
  \cup
  [prompt : {"X"}, images : {TooManyImages}, provider : {Undefined, "openrouter"},
   scenario : {Undefined}, aspect_ratio : {UndefinedSeq, <<"s", "q", "u", "a", "r", "e">>},
   negative_prompt : {Undefined}, sample_count : {0},
   save_to_file : {FALSE}, filename : {UndefinedSeq}]

NoArgs ==
  [prompt |-> "", images |-> <<>>, provider |-> Undefined, scenario |-> Undefined,
   aspect_ratio |-> UndefinedSeq, negative_prompt |-> Undefined, sample_count |-> 0,
   save_to_file |-> FALSE, filename |-> UndefinedSeq]

\* what the file system answers to readImageFileAsBase64
FileBase64 == <<"R", "k", "l", "M", "R", "Q">>
\* what the remote host answers to fetchImageAsBase64
UrlBase64 == <<"V", "V", "J", "M">>
WebpMime == <<"i", "m", "a", "g", "e", "/", "w", "e", "b", "p">>

InlinePng == [mime_type |-> PngMime, data |-> <<"U", "E", "5", "H">>]
InlineNoMime == [data |-> <<"S", "l", "B", "H">>]

\* 2xx JSON bodies of the Gemini backend
GeminiBodies ==
  { JsNull,
    [error |-> "quota"],
    [candidates |-> <<>>],
    [candidates |-> <<JsNull>>],
    [candidates |-> <<[finishReason |-> "SAFETY"]>>],
    [candidates |-> <<[content |-> [role |-> "model"]]>>],
    [candidates |-> <<[content |-> [parts |-> <<[text |-> "no image"]>>]]>>],
    [candidates |-> <<[content |-> [parts |-> <<JsNull>>]]>>],
    [candidates |-> <<[content |-> [parts |-> <<[text |-> "here"], [inline_data |-> InlinePng]>>]]>>,
     usageMetadata |-> [totalTokenCount |-> 7]],
    [candidates |-> <<[content |-> [parts |-> <<[inline_data |-> InlinePng]>>]],
                      [content |-> [parts |-> <<[inline_data |-> InlineNoMime]>>]]>>] }

DataUrl == <<"d", "a", "t", "a", ":", "i", "m", "a", "g", "e", "/", "p", "n", "g", ";", "b", "a", "s", "e", "6", "4", ",", "U", "E", "5", "H">>
\* a data URL whose MIME subtype spells a relative path
DotDotDataUrl == <<"d", "a", "t", "a", ":", "i", "m", "a", "g", "e", "/", "/", ".", ".", "/", ".", ".", "/", "x", ";", "b", "a", "s", "e", "6", "4", ",", "U", "E", "5", "H">>
HttpUrl == <<"h", "t", "t", "p", "s", ":", "/", "/", "h", "/", "o", "u", "t", ".", "p", "n", "g">>

\* 2xx JSON bodies of the OpenRouter backend
OpenRouterBodies ==
  { JsNull,
    [error |-> "quota"],
    [choices |-> <<>>],
    [choices |-> <<JsNull>>],
    [choices |-> <<[finish_reason |-> "stop"]>>],
    [choices |-> <<[message |-> JsNull]>>],
    [choices |-> <<[message |-> [role |-> "assistant"]]>>],
    [choices |-> <<[message |-> [content |-> [string |-> <<"n", "o", " ", "i", "m", "a", "g", "e">>]]]>>],
    [choices |-> <<[message |-> [content |-> [array |-> TRUE]]]>>],
    [choices |-> <<[message |-> [content |-> [string |-> DataUrl]]]>>],
    [choices |-> <<[message |-> [content |-> [string |-> <<"s", "e", "e", " ", "h", "t", "t", "p", "s", ":", "/", "/", "h", "/", "o", "u", "t", ".", "p", "n", "g", " ", "n", "o", "w">>]]]>>],
    [choices |-> <<[message |-> [images |-> <<JsNull>>]]>>],
    [choices |-> <<[message |-> [images |-> <<[image_url |-> [url |-> DotDotDataUrl]]>>]]>>],
    [choices |-> <<[message |-> [images |-> <<>>,
                                 content |-> [string |-> <<"s", "e", "e", " ", "h", "t", "t", "p", "s", ":", "/", "/", "h", "/", "o", "u", "t", ".", "p", "n", "g", " ", "n", "o", "w">>]]]>>],
    [choices |-> <<[message |-> [images |-> <<[index |-> 0]>>,
                                 content |-> [string |-> DataUrl]]]>>],
    [choices |-> <<[message |-> [content |->
        [string |-> <<"p", "i", "c", " ", "d", "a", "t", "a", ":", "i", "m", "a", "g", "e", "/", "p", "n", "g", ";", "b", "a", "s", "e", "6", "4", ",", "U", "E", "5", "H", " ", "o", "r", " ", "h", "t", "t", "p", "s", ":", "/", "/", "h", "/", "a", "l", "t", ".", "p", "n", "g">>]]]>>],
    [choices |-> <<[message |-> [images |-> <<[image_url |-> [url |-> DataUrl]],
                                              [image_url |-> [url |-> HttpUrl]]>>,
                                 content |-> [string |-> <<"s", "e", "e", " ", "h", "t", "t", "p", "s", ":", "/", "/", "h", "/", "o", "t", "h", "e", "r", ".", "p", "n", "g">>]]]>>,
     usage |-> [total_tokens |-> 7]] }

\* everything the backend can answer to the generation POST
Outcomes(p) ==
  { [kind |-> "network", message |-> "fetch failed"],
    [kind |-> "status", status |-> 500, text |-> "internal"],
    [kind |-> "invalid-json", message |-> "Unexpected token < in JSON"] }
  \cup { [kind |-> "json", data |-> d] :
           d \in IF p = "gemini" THEN GeminiBodies ELSE OpenRouterBodies }

NoOutcome == [kind |-> "none"]

---------------------------------------------------------------------------
(* The file persister: saveImages and sanitizeFilename (utils.ts) *)

\* const outputDir = 'generated_images'
OutputDir == <<"g", "e", "n", "e", "r", "a", "t", "e", "d", "_", "i", "m", "a", "g", "e", "s">>

\* the longest sanitized base name: filename.slice(0, 64)
MaxBaseLen == 64

\* c is not matched by /[^a-z0-9_\-]/i
IsSafeChar(c) ==
  \/ \E k \in 1..Len(LowerChars) : LowerChars[k] = c \/ UpperChars[k] = c
  \/ IsDigit(c)
  \/ c \in {"_", "-"}

\* filename.replace(/[^a-z0-9_\-]+/gi, '_'): every maximal run of other
\* characters becomes one '_'
ReplaceUnsafeRuns(s) ==
  LET marked == [k \in 1..Len(s) |->
                   IF IsSafeChar(s[k]) THEN s[k]
                   ELSE IF k = 1 \/ IsSafeChar(s[k - 1]) THEN "_" ELSE ""]
  IN  SelectSeq(marked, LAMBDA c : c # "")

\* a sanitizer that never shortens
sanitizeFilenameUncut(filename) == ReplaceUnsafeRuns(filename)

sanitizeFilename(filename) ==
  LET replaced == ReplaceUnsafeRuns(filename)
  IN  SubSeq(replaced, 1, IF Len(replaced) < MaxBaseLen THEN Len(replaced) ELSE MaxBaseLen)

\* new Date().toISOString() read t milliseconds after 2025-01-01T00:00:00.000Z
toISOString(t) ==
  <<"2", "0", "2", "5", "-", "0", "1", "-", "0", "1", "T", "0", "0", ":", "0", "0", ":", "0">> \o Digits((t \div 1000) % 10) \o <<".">>
  \o Digits((t \div 100) % 10) \o Digits((t \div 10) % 10) \o Digits(t % 10) \o <<"Z">>

\* .replace(/[:.]/g, '-')
ReplaceColonDot(s) == [k \in 1..Len(s) |-> IF s[k] \in {":", "."} THEN "-" ELSE s[k]]

Timestamp(t) == ReplaceColonDot(toISOString(t))

\* the file name with the loop counter i itself (0-based) as the suffix
SaveFilenameZeroBased(baseFilename, t, n, index, ext) ==
  LET safeBase == sanitizeFilename(IF TruthySeq(baseFilename) THEN baseFilename
                                   ELSE <<"g", "e", "n", "e", "r", "a", "t", "e", "d", "_", "i", "m", "a", "g", "e">>)
  IN  safeBase \o <<"_">> \o Timestamp(t)
      \o (IF n > 1 THEN <<"_">> \o Digits(index - 1) ELSE <<>>)
      \o <<".">> \o ext

\* the file name of image i (1-based, the code's i + 1) of a batch of n
SaveFilename(baseFilename, t, n, index, ext) ==
  LET safeBase == sanitizeFilename(IF TruthySeq(baseFilename) THEN baseFilename
                                   ELSE <<"g", "e", "n", "e", "r", "a", "t", "e", "d", "_", "i", "m", "a", "g", "e">>)
  IN  safeBase \o <<"_">> \o Timestamp(t)
      \o (IF n > 1 THEN <<"_">> \o Digits(index) ELSE <<>>)
      \o <<".">> \o ext

\* the segments of a path between its '/' separators
SplitPath(s) ==
  LET slashes == {k \in 1..Len(s) : s[k] = "/"}
      \* the position of the i-th '/', 0 before the first, Len(s) + 1 after the last
      Slash(i) == IF i = 0 THEN 0
                  ELSE IF i > Cardinality(slashes) THEN Len(s) + 1
                  ELSE CHOOSE k \in slashes : Cardinality({j \in slashes : j < k}) = i - 1
  IN  [i \in 1..(Cardinality(slashes) + 1) |-> SubSeq(s, Slash(i - 1) + 1, Slash(i) - 1)]

\* path.normalize on the segments of a relative path: '' and '.' vanish,
\* '..' removes the segment before it (and stays when there is none)
RECURSIVE NormalizeSegments(_, _)
NormalizeSegments(segments, out) ==
  IF segments = <<>> THEN out
  ELSE LET s == Head(segments)
       IN  IF s = <<>> \/ s = <<".">>
           THEN NormalizeSegments(Tail(segments), out)
           ELSE IF s = <<".", ".">> /\ out # <<>> /\ out[Len(out)] # <<".", ".">>
           THEN NormalizeSegments(Tail(segments), SubSeq(out, 1, Len(out) - 1))
           ELSE NormalizeSegments(Tail(segments), Append(out, s))

RECURSIVE JoinSegments(_)
JoinSegments(segments) ==
  IF segments = <<>> THEN <<>>
  ELSE IF Len(segments) = 1 THEN Head(segments)
  ELSE Head(segments) \o <<"/">> \o JoinSegments(Tail(segments))

\* path.join(outputDir, filename): the two are joined by '/' and the result
\* is normalized
pathJoin(dir, filename) ==
  LET joined == dir \o <<"/">> \o filename
      kept   == JoinSegments(NormalizeSegments(SplitPath(joined), <<>>))
  IN  IF kept = <<>> THEN <<".">>
      ELSE IF joined[Len(joined)] = "/" THEN kept \o <<"/">> ELSE kept

JpgFormat == <<"j", "p", "g">>

\* ext === 'jpeg' ? 'jpg' : ext
JpegToJpg(ext) == IF ext = <<"j", "p", "e", "g">> THEN JpgFormat ELSE ext

\* image.data.match(/data:image\/(.*?);/)[1], UndefinedSeq when no match
DataImageMatch(s) ==
  LET marker == <<"d", "a", "t", "a", ":", "i", "m", "a", "g", "e", "/">>
      Semi(at) == FirstOccurrence(s, <<";">>, at + Len(marker))
      hits == {at \in 1..Len(s) :
                 /\ at + Len(marker) - 1 <= Len(s)
                 /\ SubSeq(s, at, at + Len(marker) - 1) = marker
                 /\ Semi(at) # 0
                 /\ \A k \in (at + Len(marker))..(Semi(at) - 1) : s[k] # "\n"}
  IN  IF hits = {} THEN UndefinedSeq
      ELSE LET at == CHOOSE x \in hits : \A y \in hits : x <= y
           IN  SubSeq(s, at + Len(marker), Semi(at) - 1)

\* the branch of the loop body an image takes
SaveKind(image) ==
  IF image = JsNull THEN "throws"
  ELSE IF /\ "type" \in DOMAIN image /\ image.type = "base64"
          /\ "data" \in DOMAIN image /\ TruthySeq(image.data) THEN "base64"
  ELSE IF /\ "type" \in DOMAIN image /\ image.type = "url"
          /\ "url" \in DOMAIN image /\ TruthySeq(image.url) THEN "url"
  ELSE "continue"

\* an extension chooser that looks at the data-URI prefix first
Base64ExtMimeFirst(image) ==
  IF startsWith(image.data, <<"d", "a", "t", "a", ":">>) /\ DataImageMatch(image.data) # UndefinedSeq
  THEN JpegToJpg(DataImageMatch(image.data))
  ELSE IF "format" \in DOMAIN image /\ TruthySeq(image.format) THEN image.format
  ELSE PngFormat

\* the extension of an inline image: the format field, else the data-URI
\* MIME subtype, else 'png'
Base64Ext(image) ==
  IF "format" \in DOMAIN image /\ TruthySeq(image.format) THEN image.format
  ELSE IF startsWith(image.data, <<"d", "a", "t", "a", ":">>) /\ DataImageMatch(image.data) # UndefinedSeq
  THEN JpegToJpg(DataImageMatch(image.data))
  ELSE PngFormat

\* the extension of a fetched image: the content-type subtype, else 'png'
UrlExt(contentType) ==
  IF TruthySeq(contentType)
  THEN JpegToJpg(IF TruthySeq(SplitSlashSecond(contentType))
                 THEN SplitSlashSecond(contentType) ELSE PngFormat)
  ELSE PngFormat

\* the base64 alphabet; '-' and '_' are accepted for '+' and '/'
Base64Alphabet ==
  UpperChars \o LowerChars \o DigitChars \o <<"+", "/">>

IsBase64Char(c) ==
  c \in {"-", "_"} \/ \E k \in 1..Len(Base64Alphabet) : Base64Alphabet[k] = c

Base64Value(c) ==
  IF c = "-" THEN 62 ELSE IF c = "_" THEN 63
  ELSE (CHOOSE k \in 1..Len(Base64Alphabet) : Base64Alphabet[k] = c) - 1

\* the 6-bit values Buffer.from(s, 'base64') reads: decoding stops at the
\* first '=', any other character outside the alphabet is skipped
RECURSIVE Base64Sextets(_)
Base64Sextets(s) ==
  IF s = <<>> \/ Head(s) = "=" THEN <<>>
  ELSE (IF IsBase64Char(Head(s)) THEN <<Base64Value(Head(s))>> ELSE <<>>)
       \o Base64Sextets(Tail(s))

\* the bytes of a sequence of 6-bit values: 4 values give 3 bytes, a final
\* group of 3 gives 2, of 2 gives 1, a single left-over value gives none
RECURSIVE SextetsToBytes(_)
SextetsToBytes(v) ==
  IF Len(v) < 2 THEN <<>>
  ELSE LET b1 == v[1] * 4 + (v[2] \div 16)
       IN  IF Len(v) = 2 THEN <<b1>>
           ELSE LET b2 == (v[2] % 16) * 16 + (v[3] \div 4)
                IN  IF Len(v) = 3 THEN <<b1, b2>>
                    ELSE <<b1, b2, (v[3] % 4) * 64 + v[4]>>
                         \o SextetsToBytes(SubSeq(v, 5, Len(v)))

\* Buffer.from(base64Data, 'base64')
BufferFromBase64(s) == SextetsToBytes(Base64Sextets(s))

\* the bytes written for an inline image
Base64Buffer(image) == BufferFromBase64(StripDataUriPrefix(image.data))

\* Buffer.from(await response.arrayBuffer()): the bytes the remote host serves
UrlBytes == <<137, 80, 78, 71>>

\* args.save_to_file && result.success && result.images && result.images.length > 0
WantsSave(a, r) ==
  /\ a.save_to_file
  /\ r.success
  /\ "images" \in DOMAIN r
  /\ Len(r.images) > 0

\* args.filename || 'nanobanana'
ServerBaseFilename(a) == IF TruthySeq(a.filename) THEN a.filename ELSE <<"n", "a", "n", "o", "b", "a", "n", "a", "n", "a">>

\* no saveImages call in progress
NoSave == [images |-> <<>>, baseFilename |-> UndefinedSeq]
---------------------------------------------------------------------------
(* The state machine *)

\* the locals of the handler in progress: handleGenerateImage, the
\* generateImage and the saveImages it awaits
Locals ==
  [pc |-> pc, caller |-> caller, args |-> args, provider |-> provider,
   aspectRatioConfig |-> aspectRatioConfig, parts |-> parts, imgIdx |-> imgIdx,
   sent |-> sent, outcome |-> outcome, result |-> result, thrown |-> thrown,
   saveArgs |-> saveArgs, saveIdx |-> saveIdx, savedFiles |-> savedFiles,
   attempted |-> attempted]

\* the locals of a handler that has not been called
IdleLocals ==
  [pc |-> "idle", caller |-> "none", args |-> NoArgs, provider |-> "none",
   aspectRatioConfig |-> NullConfig, parts |-> <<>>, imgIdx |-> 0,
   sent |-> <<>>, outcome |-> NoOutcome, result |-> NoResult, thrown |-> "",
   saveArgs |-> NoSave, saveIdx |-> 0, savedFiles |-> <<>>, attempted |-> <<>>]

Idle ==
  /\ pc = "idle" /\ caller = "none" /\ args = NoArgs /\ provider = "none"
  /\ aspectRatioConfig = NullConfig /\ parts = <<>> /\ imgIdx = 0
  /\ sent = <<>> /\ outcome = NoOutcome /\ result = NoResult /\ thrown = ""
  /\ clock = 0 /\ writes = <<>>
  /\ saveArgs = NoSave /\ saveIdx = 0 /\ savedFiles = <<>> /\ attempted = <<>>
  /\ suspended = IdleLocals

\* the server is constructed: each provider reads its key from the environment
Init ==
  /\ geminiKey \in {Undefined, "sk-key"}
  /\ openrouterKey \in {Undefined, "sk-key"}
  /\ Idle

\* where generateImage goes once the reference images are in the payload
AfterImages(config) == IF config.tag # "null" THEN "canvas" ELSE "post"

\* generateImage(a) of adapter p is entered: the credential guard, then
\* parseAspectRatio, the text part and (OpenRouter, which awaits nothing in
\* its loop) the reference images
EnterGenerateImage(p, a) ==
  IF ~isAvailable(KeyOf(p))
  THEN /\ thrown' = (IF p = "gemini"
                     THEN "GEMINI_API_KEY environment variable is not set"
                     ELSE "OPENROUTER_API_KEY environment variable is not set")
       /\ pc' = "thrown"
       /\ UNCHANGED <<aspectRatioConfig, parts, imgIdx, result>>
  ELSE LET config == parseAspectRatio(a.aspect_ratio)
       IN  /\ aspectRatioConfig' = config
           /\ thrown' = ""
           /\ result' = NoResult
           /\ IF p = "gemini"
              THEN /\ parts' = <<GeminiTextPart(GeminiBuildPrompt(a, config))>>
                   /\ imgIdx' = 1
                   /\ pc' = IF Len(a.images) > 0 THEN "images" ELSE AfterImages(config)
              ELSE /\ parts' = <<OpenRouterTextBlock(OpenRouterBuildPrompt(a, config))>>
                               \o OpenRouterReferenceBlocks(a.images, 1)
                   /\ imgIdx' = Len(a.images) + 1
                   /\ pc' = AfterImages(config)

\* a handler without the check of the selector's answer
ProviderMissingIgnored(p) == FALSE

\* if (!provider)
ProviderMissing(p) == p = "none"

\* the generate_image tool call: handleGenerateImage selects the adapter and
\* rejects the request when selectProvider returns null
HandleGenerateImage(a) ==
  /\ UNCHANGED suspended
  /\ pc = "idle"
  /\ a.save_to_file => Len(writes) < MaxWrites
  /\ args' = a
  /\ caller' = "server"
  /\ LET p == selectProvider(a.provider, geminiKey, openrouterKey)
     IN  /\ provider' = p
         /\ IF ProviderMissing(p)
            THEN /\ thrown' = "No image generation provider is available. Please set either GEMINI_API_KEY or OPENROUTER_API_KEY environment variable."
                 /\ pc' = "thrown"
                 /\ UNCHANGED <<aspectRatioConfig, parts, imgIdx, result>>
            ELSE EnterGenerateImage(p, a)
  /\ UNCHANGED <<geminiKey, openrouterKey, sent, outcome>>
  /\ UNCHANGED persistVars

\* a script constructs an adapter and calls generateImage itself
DirectCall(p, a) ==
  /\ UNCHANGED suspended
  /\ pc = "idle"
  /\ args' = a
  /\ caller' = "direct"
  /\ provider' = p
  /\ EnterGenerateImage(p, a)
  /\ UNCHANGED <<geminiKey, openrouterKey, sent, outcome>>
  /\ UNCHANGED persistVars

\* a loop that gives up on the images and goes on to the POST
OnResolveFailureGoOn(config) == AfterImages(config)

\* a rejected file read or fetch leaves the try block for the catch, which
\* returns the failure result
OnResolveFailure(config) == "returned"

\* one iteration of the Gemini loop over args.images; fileOk and fetched are
\* what the file system and the remote host answer
GeminiAddImage(fileOk, fetched, contentType) ==
  /\ UNCHANGED suspended
  /\ pc = "images" /\ provider = "gemini" /\ imgIdx <= Len(args.images)
  /\ LET image == args.images[imgIdx]
         source == GeminiImageSource(image)
         failed == \/ source = "path" /\ ~fileOk
                   \/ source = "url" /\ fetched # "ok"
         part ==
           CASE source = "base64" ->
                  <<GeminiImagePart(imgIdx,
                      IF TruthySeq(image.mimeType) THEN image.mimeType ELSE PngMime,
                      StripDataUriPrefix(image.base64))>>
             [] source = "path" ->
                  <<GeminiImagePart(imgIdx,
                      IF TruthySeq(image.mimeType) THEN image.mimeType ELSE PngMime,
                      FileBase64)>>
             [] source = "url" ->
                  <<GeminiImagePart(imgIdx,
                      IF TruthySeq(contentType) THEN contentType ELSE PngMime,
                      UrlBase64)>>
             [] OTHER -> <<>>
     IN  \* an outcome is only drawn for the source that is read
         /\ source # "path" => fileOk
         /\ source # "url" => fetched = "ok" /\ contentType = UndefinedSeq
         /\ fetched # "ok" => contentType = UndefinedSeq
         /\ IF failed
            THEN /\ result' = GeminiFailure(args,
                       IF source = "path" THEN "ENOENT: no such file or directory"
                       ELSE IF fetched = "not-ok"
                       THEN "Failed to fetch image from URL: " \o Str(image.url)
                       ELSE "fetch failed")
                 /\ pc' = OnResolveFailure(aspectRatioConfig)
                 /\ UNCHANGED <<parts, imgIdx>>
            ELSE /\ parts' = parts \o part
                 /\ imgIdx' = imgIdx + 1
                 /\ pc' = IF imgIdx = Len(args.images)
                          THEN AfterImages(aspectRatioConfig) ELSE "images"
                 /\ UNCHANGED result
  /\ UNCHANGED <<geminiKey, openrouterKey, caller, args, provider,
                 aspectRatioConfig, sent, outcome, thrown>>
  /\ UNCHANGED persistVars

\* the blank canvas is synthesized and pushed after the reference images
AddCanvas(jimpOk) ==
  /\ UNCHANGED suspended
  /\ pc = "canvas"
  /\ jimpOk => JimpCanBuild(aspectRatioConfig)
  /\ parts' = PushCanvas(provider, parts, generateLargeBlankImage(aspectRatioConfig, jimpOk))
  /\ pc' = "post"
  /\ UNCHANGED <<geminiKey, openrouterKey, caller, args, provider,
                 aspectRatioConfig, imgIdx, sent, outcome, result, thrown>>
  /\ UNCHANGED persistVars

\* the generation POST is issued with the payload built so far
Post ==
  /\ UNCHANGED suspended
  /\ pc = "post"
  /\ sent' = Append(sent, parts)
  /\ pc' = "awaiting"
  /\ UNCHANGED <<geminiKey, openrouterKey, caller, args, provider,
                 aspectRatioConfig, parts, imgIdx, outcome, result, thrown>>
  /\ UNCHANGED persistVars

\* the POST settles and generateImage returns its GenerationResult; the
\* server then calls saveImages when the request asks for files and the
\* result carries images
Respond ==
  /\ UNCHANGED suspended
  /\ pc = "awaiting"
  /\ \E o \in Outcomes(provider) :
       LET r == ParseResponse(provider, args, o)
       IN  /\ outcome' = o
           /\ result' = r
           /\ IF caller = "server" /\ WantsSave(args, r)
              THEN /\ saveArgs' = [images |-> r.images,
                                   baseFilename |-> ServerBaseFilename(args)]
                   /\ pc' = "mkdir"
              ELSE /\ pc' = "returned"
                   /\ UNCHANGED saveArgs
  /\ UNCHANGED <<geminiKey, openrouterKey, caller, args, provider,
                 aspectRatioConfig, parts, imgIdx, sent, thrown>>
  /\ UNCHANGED <<clock, writes, saveIdx, savedFiles, attempted>>

\* a script calls saveImages itself with the images of a result
SaveImagesCall(images, baseFilename) ==
  /\ UNCHANGED suspended
  /\ pc = "idle"
  /\ Len(writes) < MaxWrites
  /\ caller' = "script"
  /\ saveArgs' = [images |-> images, baseFilename |-> baseFilename]
  /\ pc' = "mkdir"
  /\ UNCHANGED <<geminiKey, openrouterKey, args, provider, aspectRatioConfig,
                 parts, imgIdx, sent, outcome, result, thrown>>
  /\ UNCHANGED <<clock, writes, saveIdx, savedFiles, attempted>>

\* saveImages returns files: the server stores them in result.saved_files
SaveReturn(files) ==
  /\ pc' = "returned"
  /\ result' = IF caller = "server" THEN result @@ [saved_files |-> files] ELSE result
  /\ thrown' = thrown

\* await fs.mkdir(outputDir, { recursive: true }), before the loop and
\* outside its try: a failure rejects saveImages and, with it, the handler
Mkdir(ok) ==
  /\ UNCHANGED suspended
  /\ pc = "mkdir"
  /\ IF ~ok
     THEN /\ thrown' = "EACCES: permission denied, mkdir 'generated_images'"
          /\ pc' = "thrown"
          /\ UNCHANGED <<result, saveIdx>>
     ELSE IF saveArgs.images = <<>>
     THEN /\ SaveReturn(<<>>)
          /\ UNCHANGED saveIdx
     ELSE /\ pc' = "saving"
          /\ saveIdx' = 1
          /\ UNCHANGED <<result, thrown>>
  /\ UNCHANGED <<geminiKey, openrouterKey, caller, args, provider,
                 aspectRatioConfig, parts, imgIdx, sent, outcome>>
  /\ UNCHANGED <<clock, writes, saveArgs, savedFiles, attempted>>

\* a catch that gives up on the rest of the batch
AfterFailureBreak(index, n) == n + 1

\* the catch of the loop body only logs: the loop goes on with the next image
AfterFailure(index, n) == index + 1

\* one iteration of the loop of saveImages; fetched and contentType are what
\* the remote host answers, writeOk what fs.writeFile does, now the time
\* new Date() reads
SaveImage(fetched, contentType, writeOk, now) ==
  /\ UNCHANGED suspended
  /\ pc = "saving" /\ saveIdx <= Len(saveArgs.images)
  /\ LET image   == saveArgs.images[saveIdx]
         n       == Len(saveArgs.images)
         kind    == SaveKind(image)
         reached == kind = "base64" \/ (kind = "url" /\ fetched = "ok")
         written == reached /\ writeOk
         ext     == IF kind = "base64" THEN Base64Ext(image) ELSE UrlExt(contentType)
         buffer  == IF kind = "base64" THEN Base64Buffer(image) ELSE UrlBytes
         filename == SaveFilename(saveArgs.baseFilename, now, n, saveIdx, ext)
         filepath == pathJoin(OutputDir, filename)
         next    == IF written \/ kind = "continue"
                    THEN saveIdx + 1 ELSE AfterFailure(saveIdx, n)
     IN  \* an outcome is only drawn for the steps that are taken
         /\ kind # "url" => fetched = "ok" /\ contentType = UndefinedSeq
         /\ fetched # "ok" => contentType = UndefinedSeq
         /\ ~reached => writeOk /\ now = clock
         /\ now \in clock..MaxClock
         /\ clock' = now
         /\ IF written
            THEN /\ writes' = Append(writes,
                       [index |-> saveIdx, count |-> n,
                        image |-> image, contentType |-> contentType,
                        ext |-> ext, filename |-> filename,
                        path |-> filepath,
                        bytes |-> buffer])
                 /\ savedFiles' = Append(savedFiles, filepath)
                 /\ attempted' = Append(attempted, "written")
            ELSE /\ attempted' = Append(attempted,
                                        IF kind = "continue" THEN "skipped" ELSE "failed")
                 /\ UNCHANGED <<writes, savedFiles>>
         /\ saveIdx' = next
         /\ IF next > n
            THEN SaveReturn(savedFiles')
            ELSE pc' = "saving" /\ UNCHANGED <<result, thrown>>
  /\ UNCHANGED <<geminiKey, openrouterKey, caller, args, provider,
                 aspectRatioConfig, parts, imgIdx, sent, outcome>>
  /\ UNCHANGED saveArgs

\* the caller has its answer (a result or an Error); the next call may start
Return ==
  /\ UNCHANGED suspended
  /\ pc \in {"returned", "thrown"}
  /\ pc' = "idle" /\ caller' = "none" /\ args' = NoArgs /\ provider' = "none"
  /\ aspectRatioConfig' = NullConfig /\ parts' = <<>> /\ imgIdx' = 0
  /\ sent' = <<>> /\ outcome' = NoOutcome /\ result' = NoResult /\ thrown' = ""
  /\ saveArgs' = NoSave /\ saveIdx' = 0 /\ savedFiles' = <<>> /\ attempted' = <<>>
  /\ UNCHANGED <<geminiKey, openrouterKey, clock, writes>>

\* the positions at which a handler has handed control to the event loop:
\* not yet called, at one of its awaits (file read or fetch of a reference
\* image, Jimp, the POST, mkdir, fetch or writeFile of an image to save),
\* or finished
AtAwait(position) ==
  position \in {"idle", "images", "canvas", "awaiting", "mkdir", "saving",
                "returned", "thrown"}

\* locals that live in fields of the shared adapter object
ResumedLocalsShared(own, other) == [own EXCEPT !.provider = other.provider]

\* a handler resumes with the locals of its own closure
ResumedLocals(own, other) == own

\* the event loop leaves the handler in progress at its await and runs the
\* other request's handler up to its next await
Switch ==
  /\ AtAwait(pc) /\ AtAwait(suspended.pc)
  /\ LET resumed == ResumedLocals(suspended, Locals)
     IN  /\ pc' = resumed.pc /\ caller' = resumed.caller /\ args' = resumed.args
         /\ provider' = resumed.provider
         /\ aspectRatioConfig' = resumed.aspectRatioConfig
         /\ parts' = resumed.parts /\ imgIdx' = resumed.imgIdx
         /\ sent' = resumed.sent /\ outcome' = resumed.outcome
         /\ result' = resumed.result /\ thrown' = resumed.thrown
         /\ saveArgs' = resumed.saveArgs /\ saveIdx' = resumed.saveIdx
         /\ savedFiles' = resumed.savedFiles /\ attempted' = resumed.attempted
  /\ suspended' = Locals
  /\ UNCHANGED <<geminiKey, openrouterKey, clock, writes>>

Flow ==
  \/ \E fileOk \in BOOLEAN, fetched \in {"ok", "not-ok", "network"},
        contentType \in {UndefinedSeq, WebpMime} :
       GeminiAddImage(fileOk, fetched, contentType)
  \/ \E jimpOk \in BOOLEAN : AddCanvas(jimpOk)
  \/ Post
  \/ Respond
  \/ Return

\* the steps of saveImages
Persist ==
  \/ \E ok \in BOOLEAN : Mkdir(ok)
  \/ \E fetched \in {"ok", "not-ok", "network"}, contentType \in {UndefinedSeq, JpegMime},
        writeOk \in BOOLEAN, now \in 0..MaxClock :
       SaveImage(fetched, contentType, writeOk, now)

Next ==
  \/ \E a \in ServerArgs : HandleGenerateImage(a)
  \/ \E p \in {"gemini", "openrouter"} :
       \E a \in {x \in ServerArgs : x.provider = Undefined} : DirectCall(p, a)
  \/ Flow

Spec == Init /\ [][Next]_vars

---------------------------------------------------------------------------
(* Specification of the selector: every credential configuration and every
   preference value *)

SelectArgs ==
  [prompt : {"X"},
   images : {<<>>, <<[NoImageField EXCEPT !.path = RefPath]>>},
   provider : Preferences, scenario : {Undefined},
   aspect_ratio : {UndefinedSeq, <<"s", "q", "u", "a", "r", "e">>},
   negative_prompt : {Undefined}, sample_count : {0},
   save_to_file : {FALSE}, filename : {UndefinedSeq}]

InitSelect ==
  /\ geminiKey \in KeyValues
  /\ openrouterKey \in KeyValues
  /\ Idle

NextSelect ==
  \/ \E a \in SelectArgs : HandleGenerateImage(a)
  \/ Flow

SpecSelect == InitSelect /\ [][NextSelect]_vars

---------------------------------------------------------------------------
(* Specification of the aspect-ratio resolver: generateImage entered with
   every token of AspectTokens *)

RatioToken(a, b) == Digits(a) \o <<":">> \o Digits(b)

\* the keys of the table, spelled as the caller may spell them
NamedTokens ==
  { <<"1", ":", "1">>, <<"s", "q", "u", "a", "r", "e">>, <<"1", "6", ":", "9">>, <<"l", "a", "n", "d", "s", "c", "a", "p", "e">>, <<"9", ":", "1", "6">>, <<"p", "o", "r", "t", "r", "a", "i", "t">>,
    <<"4", ":", "3">>, <<"3", ":", "4">>, <<"1", "6", ":", "1", "0">>, <<"w", "i", "d", "e", "s", "c", "r", "e", "e", "n">>, <<"2", "1", ":", "9">>, <<"u", "l", "t", "r", "a", "w", "i", "d", "e">>,
    <<"2", ":", "1">>, <<"p", "a", "n", "o", "r", "a", "m", "i", "c">>,
    <<"S", "Q", "U", "A", "R", "E">>, <<"L", "a", "n", "d", "s", "c", "a", "p", "e">>, <<"P", "O", "R", "T", "R", "A", "I", "T">>, <<"W", "i", "d", "e", "S", "c", "r", "e", "e", "n">>, <<"U", "l", "t", "r", "a", "W", "i", "d", "e">>,
    <<"P", "a", "n", "o", "r", "a", "m", "i", "c">>, <<" ", "1", "6", ":", "9", " ">>, <<"S", "q", "u", "a", "r", "e", " ">> }

\* "a:b" for every pair of terms up to MaxTerm, and ratios whose quotient
\* is an exact tie
CustomTokens ==
  { RatioToken(a, b) : a, b \in 0..MaxTerm }
  \cup { <<"2", "0", "4", "8", ":", "9", "3">>, <<"2", "0", "4", "8", ":", "9", "9">>, <<"2", "0", "4", "8", ":", "3">>, <<"9", "3", ":", "2", "0", "4", "8">>, <<"0", "1", ":", "1">>, <<"1", "0", "0", ":", "1">>, <<"1", ":", "1", "0", "0">> }

\* neither a named token nor "<integer>:<integer>"
OtherTokens ==
  { <<"b", "a", "n", "a", "n", "a">>, <<"1", "6", "x", "9">>, <<"1", "6", ":", "9", ":", "1">>, <<"a", ":", "b">>, <<"-", "1", ":", "2">>, <<"1", ".", "5", ":", "1">>, <<":">>,
    <<"1", "6", ":">>, <<":", "9">>, <<" ", "5", ":", "4">>, <<"5", " ", ":", " ", "4">>, <<"w", "i", "d", "e", " ", "s", "c", "r", "e", "e", "n">>, <<"t", "o", "S", "t", "r", "i", "n", "g">>,
    <<"c", "o", "n", "s", "t", "r", "u", "c", "t", "o", "r">>, <<"C", "o", "n", "s", "t", "r", "u", "c", "t", "o", "r">>, <<"_", "_", "p", "r", "o", "t", "o", "_", "_">> }

AspectTokens == {UndefinedSeq, <<>>} \cup NamedTokens \cup CustomTokens \cup OtherTokens

AspectArgs ==
  [prompt : {"X"},
   images : {<<>>},
   provider : {Undefined}, scenario : {Undefined},
   aspect_ratio : AspectTokens,
   negative_prompt : {Undefined}, sample_count : {0},
   save_to_file : {FALSE}, filename : {UndefinedSeq}]
  \cup
  [prompt : {"X"},
   images : {<<[NoImageField EXCEPT !.url = RefUrl]>>},
   provider : {Undefined}, scenario : {Undefined},
   aspect_ratio : {<<"p", "o", "r", "t", "r", "a", "i", "t">>},
   negative_prompt : {Undefined}, sample_count : {0},
   save_to_file : {FALSE}, filename : {UndefinedSeq}]

InitConfigured ==
  /\ geminiKey = "sk-key"
  /\ openrouterKey = "sk-key"
  /\ Idle

NextAspect ==
  \/ \E p \in {"gemini", "openrouter"} : \E a \in AspectArgs : DirectCall(p, a)
  \/ Flow

SpecAspect == InitConfigured /\ [][NextAspect]_vars

---------------------------------------------------------------------------
(* Specification of the prompt composer: generateImage entered with every
   combination of prompt, scenario, aspect token, negative prompt and
   sample count *)

PromptArgs ==
  [prompt : {"X", "a red circle"},
   images : {<<>>},
   provider : {Undefined},
   scenario : {Undefined, "", "style-transfer", "character-design",
               "text-to-image", "watercolor", "constructor", "toString"},
   aspect_ratio : {UndefinedSeq, <<"s", "q", "u", "a", "r", "e">>, <<"5", ":", "4">>, <<"b", "a", "n", "a", "n", "a">>},
   negative_prompt : {Undefined, "", "Y"},
   sample_count : {0, 1, 2, 4},
   save_to_file : {FALSE}, filename : {UndefinedSeq}]
  \cup
  [prompt : {"X"},
   images : {<<[NoImageField EXCEPT !.url = RefUrl]>>},
   provider : {Undefined}, scenario : {"multi-reference"},
   aspect_ratio : {UndefinedSeq},
   negative_prompt : {Undefined}, sample_count : {0},
   save_to_file : {FALSE}, filename : {UndefinedSeq}]

NextPrompt ==
  \/ \E p \in {"gemini", "openrouter"} : \E a \in PromptArgs : DirectCall(p, a)
  \/ Flow

SpecPrompt == InitConfigured /\ [][NextPrompt]_vars


---------------------------------------------------------------------------
(* Specification of the file persister: generate_image requests that ask
   for files, and scripts that call saveImages themselves *)

SaveRequest(preference, save, filename) ==
  [prompt |-> "X", images |-> <<>>, provider |-> preference, scenario |-> Undefined,
   aspect_ratio |-> UndefinedSeq, negative_prompt |-> Undefined, sample_count |-> 0,
   save_to_file |-> save, filename |-> filename]

SaveArgs ==
  { SaveRequest(Undefined, TRUE, UndefinedSeq),
    SaveRequest(Undefined, TRUE, <<"m", "y", " ", "a", "r", "t">>),
    SaveRequest(Undefined, FALSE, <<"m", "y", " ", "a", "r", "t">>),
    SaveRequest("openrouter", TRUE, UndefinedSeq),
    SaveRequest("replicate", TRUE, UndefinedSeq) }

\* images as a result carries them, an inline image without format field
\* (raw base64, data URI), an entry of an unknown type and null
ScriptImageLists ==
  { <<>>,
    <<[type |-> "base64", data |-> <<"Q", "U", "J", "D">>]>>,
    <<[type |-> "base64", data |-> RefDataUri], JsNull,
      [type |-> "file"], [type |-> "url", url |-> HttpUrl]>> }

ScriptFilenames == { <<"m", "y", "_", "a", "r", "t">> }

NextSave ==
  \/ \E a \in SaveArgs : HandleGenerateImage(a)
  \/ \E images \in ScriptImageLists, baseFilename \in ScriptFilenames :
       SaveImagesCall(images, baseFilename)
  \/ Post
  \/ Respond
  \/ Return
  \/ Persist

SpecSave == InitConfigured /\ [][NextSave]_vars

---------------------------------------------------------------------------
(* Specification of the files one call of saveImages writes into an empty
   log: the images and base filenames cover every source of the extension
   and of the file name *)

FileBaseNames ==
  { UndefinedSeq, <<"m", "y", "_", "a", "r", "t">>, <<"a", " ", "b", "/", "c">>, <<".", ".", "/", ".", ".", "/", "e", "t", "c", "/", "p", "a", "s", "s", "w", "d">>, <<"c", "a", "f", "%", ".", ".">>,
    <<"0", "1", "2", "3", "4", "5", "6", "7", "8", "9", "a", "b", "c", "d", "e", "f", "g", "h", "i", "j", "k", "l", "m", "n", "o", "p", "q", "r", "s", "t", "u", "v", "w", "x", "y", "z", "A", "B", "C", "D", "E", "F", "G", "H", "I", "J", "K", "L", "M", "N", "O", "P", "Q", "R", "S", "T", "U", "V", "W", "X", "Y", "Z", "-", "_", "!", "!", "x">> }

FileImageLists ==
  { <<[type |-> "base64", data |-> RefDataUri, format |-> <<"w", "e", "b", "p">>]>>,
    <<[type |-> "base64", data |-> RefDataUri]>>,
    <<[type |-> "base64", data |-> <<"Q", "U", "J", "D">>]>>,
    <<[type |-> "url", url |-> HttpUrl]>>,
    <<[type |-> "url", url |-> HttpUrl, format |-> <<"w", "e", "b", "p">>]>>,
    <<OpenRouterGeneratedImage(DataUrl), OpenRouterGeneratedImage(HttpUrl)>>,
    <<OpenRouterGeneratedImage(DotDotDataUrl)>>,
    <<[type |-> "base64", data |-> <<"d", "a", "t", "a", ":", "i", "m", "a", "g", "e", "/", "/", ".", ".", "/", ".", ".", "/", "y", ";", "b", "a", "s", "e", "6", "4", ",", "U", "E", "5", "H">>]>> }

NextFiles ==
  \/ /\ writes = <<>>
     /\ \E filename \in FileBaseNames :
          HandleGenerateImage(SaveRequest("openrouter", TRUE, filename))
  \/ /\ writes = <<>>
     /\ \E images \in FileImageLists, baseFilename \in FileBaseNames :
          SaveImagesCall(images, baseFilename)
  \/ Post
  \/ Respond
  \/ Return
  \/ Persist

SpecFiles == InitConfigured /\ [][NextFiles]_vars

---------------------------------------------------------------------------
(* Specification of two generate_image requests in flight at once: the
   handler of one runs while the other waits at an await *)

PairArgs ==
  { SaveRequest("gemini", FALSE, UndefinedSeq),
    SaveRequest("openrouter", FALSE, UndefinedSeq),
    SaveRequest(Undefined, TRUE, <<"m", "y", " ", "a", "r", "t">>) }

NextPair ==
  \/ /\ writes = <<>>
     /\ \E a \in PairArgs : HandleGenerateImage(a)
  \/ Post
  \/ Respond
  \/ Persist
  \/ Return
  \/ Switch

SpecPair == InitConfigured /\ [][NextPair]_vars
---------------------------------------------------------------------------
(* Properties *)

\* a credential is configured: its environment variable is set and non-empty
Configured(key) == key # Undefined /\ key # ""

InCall == pc \notin {"idle", "thrown"}

\* C1: the selector returns none when neither credential is configured,
\* the explicitly named backend whenever that backend's credential is
\* configured (whatever the other's availability), and Gemini rather than
\* OpenRouter under 'auto' or an absent preference with both configured.
C1_SelectContract ==
  caller = "server" =>
    /\ (~Configured(geminiKey) /\ ~Configured(openrouterKey)) => provider = "none"
    /\ (args.provider = "gemini" /\ Configured(geminiKey)) => provider = "gemini"
    /\ (args.provider = "openrouter" /\ Configured(openrouterKey)) => provider = "openrouter"
    /\ (/\ args.provider \in {"auto", Undefined}
        /\ Configured(geminiKey) /\ Configured(openrouterKey)) => provider = "gemini"

C1_Witness ==
  /\ caller = "server" /\ args.provider = "auto"
  /\ Configured(geminiKey) /\ Configured(openrouterKey)
  /\ provider = "gemini" /\ pc = "post"

\* C2: an explicit preference never falls back: when the named backend's
\* credential is not configured the selector returns none, even if the
\* other backend's credential is configured.
C2_NoFallback ==
  caller = "server" =>
    /\ (args.provider = "gemini" /\ ~Configured(geminiKey)) => provider = "none"
    /\ (args.provider = "openrouter" /\ ~Configured(openrouterKey)) => provider = "none"

C2_Witness ==
  /\ caller = "server" /\ args.provider = "gemini"
  /\ ~Configured(geminiKey) /\ Configured(openrouterKey)
  /\ provider = "none" /\ pc = "thrown"

\* a parsed 2xx body without the fields the adapter reads its images from
LacksExpectedFields(p, data) ==
  IF p = "gemini"
  THEN data = JsNull \/ "candidates" \notin DOMAIN data
  ELSE data = JsNull \/ "choices" \notin DOMAIN data \/ data.choices = <<>>

ResultFailsWithMessage ==
  /\ result # NoResult /\ ~result.success
  /\ "error" \in DOMAIN result /\ Truthy(result.error)

ImagesOf(r) == IF "images" \in DOMAIN r THEN r.images ELSE <<>>

\* C4: every GenerationResult an adapter returns has, when success is
\* false, no images and an error message, and when success is true, no
\* error message.
C4_ResultInvariant ==
  result # NoResult =>
    IF result.success
    THEN "error" \notin DOMAIN result
    ELSE /\ ImagesOf(result) = <<>>
         /\ "error" \in DOMAIN result /\ Truthy(result.error)

C4_Witness ==
  /\ pc = "returned" /\ sent # <<>>
  /\ result # NoResult /\ ~result.success /\ Truthy(result.error)

\* C5: a 2xx response of unexpected shape in which no image is found yields
\* success=true with an empty image list, for both adapters.
C5_UnexpectedShapeIsSuccess ==
  (/\ pc = "returned" /\ outcome.kind = "json"
   /\ LacksExpectedFields(provider, outcome.data))
  => (result.success /\ result.images = <<>>)

\* text first, reference images in the order of the images list, the canvas
\* (present exactly when a descriptor was resolved) last
PayloadOrdered(payload, images, config) ==
  /\ Len(payload) >= 1
  /\ payload[1].origin = "text"
  /\ \A k \in 2..Len(payload) : payload[k].origin \in {"image", "canvas"}
  /\ \A k \in 1..Len(payload) :
       payload[k].origin = "image" => payload[k].index \in 1..Len(images)
  /\ \A j, k \in 1..Len(payload) :
       (j < k /\ payload[j].origin = "image" /\ payload[k].origin = "image")
         => payload[j].index < payload[k].index
  /\ \A k \in 1..Len(payload) : payload[k].origin = "canvas" => k = Len(payload)
  /\ config.tag # "null" <=> payload[Len(payload)].origin = "canvas"

\* C6: in every payload sent, the text part is first, the reference images
\* follow in the order of the request's images list, and the canvas, whenever
\* a descriptor was resolved, is the last element.
C6_PayloadOrder ==
  \A n \in 1..Len(sent) : PayloadOrdered(sent[n], args.images, aspectRatioConfig)

C6_Witness ==
  /\ Len(sent) = 1 /\ Len(sent[1]) = 4
  /\ sent[1][2].origin = "image" /\ sent[1][3].origin = "image"
  /\ sent[1][2].index = 1 /\ sent[1][3].index = 2
  /\ sent[1][4].origin = "canvas"

\* the scenario prefixes as documented: empty for any other tag
ClaimedScenarioPrefix(tag) ==
  CASE tag = "style-transfer" ->
         "Apply the artistic style from the reference image(s) to: "
    [] tag = "character-design" ->
         "Create a character design sheet showing multiple views and poses for: "
    [] tag = "pose-modification" ->
         "Modify the pose of the subject while maintaining their appearance: "
    [] tag = "background-expansion" ->
         "Expand or modify the background while keeping the main subject: "
    [] tag = "multi-reference" ->
         "Combine elements from all reference images to create: "
    [] tag = "cross-view" ->
         "Generate different viewing angles or perspectives of: "
    [] tag = "ar-overlay" ->
         "Add augmented reality information overlays to: "
    [] tag = "photo-enhancement" ->
         "Enhance and improve the quality of: "
    [] OTHER -> ""

ClaimedPrompt(a, config) ==
  LET body ==
        ClaimedScenarioPrefix(a.scenario) \o a.prompt
        \o (IF config.tag # "null"
            THEN " Generate the image to fill the entire "
                 \o getAspectRatioPrompt(config)
                 \o " canvas provided by the blank image."
            ELSE "")
        \o (IF a.negative_prompt \notin {Undefined, ""}
            THEN " Avoid: " \o a.negative_prompt \o "." ELSE "")
  IN  IF a.sample_count > 1
      THEN "Generate " \o ToString(a.sample_count) \o " variations of: " \o body
      ELSE body

\* C7: the composed prompt is scenario prefix (empty for an unknown or
\* absent tag) + base prompt + aspect clause (if a descriptor exists) +
\* ' Avoid: <negative>.' (if a negative prompt exists), wrapped as
\* 'Generate N variations of: ...' only if the sample count exceeds 1.
C7_Composition ==
  InCall => parts[1].text = ClaimedPrompt(args, aspectRatioConfig)

DocumentedKeys ==
  {"1:1", "square", "16:9", "landscape", "9:16", "portrait", "4:3", "3:4",
   "16:10", "widescreen", "21:9", "ultrawide", "2:1", "panoramic"}

\* the documented <<width, height, label>> of a key
DocumentedRatio(key) ==
  CASE key \in {"square", "1:1"}        -> <<1024, 1024, "square">>
    [] key \in {"landscape", "16:9"}    -> <<1024, 576, "landscape">>
    [] key \in {"portrait", "9:16"}     -> <<576, 1024, "portrait">>
    [] key \in {"widescreen", "16:10"}  -> <<1024, 640, "widescreen">>
    [] key \in {"ultrawide", "21:9"}    -> <<1024, 439, "ultrawide">>
    [] key \in {"panoramic", "2:1"}     -> <<1024, 512, "panoramic">>
    [] key = "4:3"                      -> <<1024, 768, "4:3">>
    [] key = "3:4"                      -> <<768, 1024, "3:4">>

\* C8: for every token that equals a key of the lookup table after case
\* folding, parseAspectRatio returns that key's documented width, height
\* and label.
C8_NamedTokens ==
  (InCall /\ Str(toLowerCase(args.aspect_ratio)) \in DocumentedKeys)
  => /\ aspectRatioConfig.tag = "config"
     /\ <<aspectRatioConfig.width, aspectRatioConfig.height, aspectRatioConfig.name>>
          = DocumentedRatio(Str(toLowerCase(args.aspect_ratio)))

C8_Witness ==
  /\ pc = "canvas" /\ args.aspect_ratio = <<"W", "i", "d", "e", "S", "c", "r", "e", "e", "n">>
  /\ aspectRatioConfig.tag = "config"
  /\ aspectRatioConfig.width = 1024 /\ aspectRatioConfig.height = 640

\* the terms of a token "a:b"
TermA(t) == parseInt(SubSeq(t, 1, ColonOfRatio(t) - 1))
TermB(t) == parseInt(SubSeq(t, ColonOfRatio(t) + 1, Len(t)))

\* 'a:b' with positive integers a and b that is not a key of the table
IsCustomToken(t) ==
  /\ ColonOfRatio(t) # 0 /\ TermA(t) > 0 /\ TermB(t) > 0
  /\ Str(t) \notin DocumentedKeys

\* x is an integer nearest to n / d
Nearest(x, n, d) == 2 * x * d - 2 * n <= d /\ 2 * n - 2 * x * d <= d

IsOtherToken(t) ==
  /\ t # UndefinedSeq
  /\ Str(trim(toLowerCase(t))) \notin DocumentedKeys
  /\ ColonOfRatio(t) = 0

NoCanvasIn(payload) == \A k \in 1..Len(payload) : payload[k].origin # "canvas"

\* C10: for every token that is neither a named token nor
\* '<integer>:<integer>', parseAspectRatio returns null and the request is
\* sent with no canvas image and no aspect clause.
C10_OtherTokensIgnored ==
  (InCall /\ IsOtherToken(args.aspect_ratio))
  => /\ aspectRatioConfig = NullConfig
     /\ NoCanvasIn(parts)
     /\ \A n \in 1..Len(sent) : NoCanvasIn(sent[n])
     /\ parts[1].text = buildPrompt(provider, args, NullConfig)


---------------------------------------------------------------------------
(* The canvas synthesizer *)

\* the blank image carried by a canvas element of a payload
CanvasImage(element) ==
  IF "inline_data" \in DOMAIN element THEN element.inline_data.png
  ELSE element.image_url.png

\* the image has exactly the width and the height of the descriptor
ExactCanvas(blank, config) ==
  /\ config.tag = "config" /\ ~config.nan
  /\ blank.width = config.width
  /\ blank.height = config.height

\* C11: for every aspect descriptor, the canvas image appended to the request
\* has exactly the descriptor's width and height, on the Jimp path and on
\* the path taken after a synthesis failure alike.
C11_CanvasExact ==
  \A k \in 1..Len(parts) :
    parts[k].origin = "canvas" => ExactCanvas(CanvasImage(parts[k]), aspectRatioConfig)

---------------------------------------------------------------------------
(* The file persister *)

\* a saveImages call is in progress or has just ended
InSave == saveArgs # NoSave

\* the positions of the images the call in progress has written
WrittenIndexes == {k \in 1..Len(attempted) : attempted[k] = "written"}

\* the fs.writeFile calls of the call in progress: the last entries of writes
CallWrites ==
  SubSeq(writes, Len(writes) - Cardinality(WrittenIndexes) + 1, Len(writes))

\* C12: when any subset of the images of a batch fails to be fetched or
\* written, saveImages does not raise, deals with every image of the batch
\* and returns exactly the paths of the images written, in input order.
C12_BatchSurvivesFailures ==
  /\ (InSave /\ pc = "thrown") => attempted = <<>>
  /\ (InSave /\ pc = "returned") =>
       /\ Len(attempted) = Len(saveArgs.images)
       /\ Len(savedFiles) = Len(CallWrites)
       /\ \A k \in 1..Len(CallWrites) :
            /\ savedFiles[k] = CallWrites[k].path
            /\ CallWrites[k].index \in WrittenIndexes
       /\ \A j, k \in 1..Len(CallWrites) :
            j < k => CallWrites[j].index < CallWrites[k].index
       /\ caller = "server" => result.saved_files = savedFiles

C12_Witness ==
  /\ InSave /\ pc = "returned"
  /\ attempted = <<"failed", "written">>
  /\ Len(savedFiles) = 1

\* the file name of a write without '.' and its extension
NameStem(e) == SubSeq(e.filename, 1, Len(e.filename) - Len(e.ext) - 1)

endsWith(s, suffix) ==
  Len(s) >= Len(suffix) /\ SubSeq(s, Len(s) - Len(suffix) + 1, Len(s)) = suffix

\* the stem ends with '_' followed by decimal digits
HasIndexSuffix(stem) ==
  \E k \in 1..(Len(stem) - 1) : stem[k] = "_" /\ AllDigits(SubSeq(stem, k + 1, Len(stem)))

\* C13: every file name of a batch of more than one image ends, before the
\* extension, with the 1-based index of the image, which differs between
\* the images of the batch; the file name of a single image has no index
\* suffix.
C13_IndexSuffix ==
  /\ \A j \in 1..Len(writes) :
       LET e == writes[j]
       IN  /\ endsWith(e.filename, <<".">> \o e.ext)
           /\ e.count > 1 =>
                /\ e.index \in 1..e.count
                /\ endsWith(NameStem(e), <<"_">> \o Digits(e.index))
           /\ e.count = 1 => ~HasIndexSuffix(NameStem(e))
  /\ \A j, k \in 1..Len(CallWrites) :
       j # k => Digits(CallWrites[j].index) # Digits(CallWrites[k].index)

C13_Witness ==
  /\ pc = "returned" /\ Len(CallWrites) = 2
  /\ \E j \in 1..Len(writes) : writes[j].count = 1
  /\ endsWith(NameStem(CallWrites[1]), <<"Z", "_", "1">>)
  /\ endsWith(NameStem(CallWrites[2]), <<"Z", "_", "2">>)

\* C14: over any sequence of saveImages calls no two writes target the same
\* path, so that no file already in the output directory is overwritten.
C14_NoPathWrittenTwice ==
  \A j, k \in 1..Len(writes) : j # k => writes[j].path # writes[k].path

\* the base64 payload of an inline image: what follows the first ',' of a
\* data URI, the data itself otherwise
Base64Payload(data) ==
  IF startsWith(data, <<"d", "a", "t", "a", ":">>) /\ FirstOccurrence(data, <<",">>, 1) # 0
  THEN SubSeq(data, FirstOccurrence(data, <<",">>, 1) + 1, Len(data))
  ELSE data

\* C15: for every inline base64 image, with or without a data-URI prefix,
\* the bytes of the file saveImages writes are the base64-decoded payload of
\* the image.
C15_RoundTrip ==
  \A j \in 1..Len(writes) :
    SaveKind(writes[j].image) = "base64"
      => writes[j].bytes = BufferFromBase64(Base64Payload(writes[j].image.data))

C15_Witness ==
  /\ \E j \in 1..Len(writes) :
       /\ SaveKind(writes[j].image) = "base64"
       /\ writes[j].image.data = <<"Q", "U", "J", "D">>
       /\ writes[j].bytes = <<65, 66, 67>>
  /\ \E j \in 1..Len(writes) :
       /\ SaveKind(writes[j].image) = "base64"
       /\ writes[j].image.data = DataUrl
       /\ writes[j].bytes = <<80, 78, 71>>

---------------------------------------------------------------------------
(* The server and the persistence step *)

\* C16: when selectProvider returns null the generate_image call is rejected
\* with the configuration error; no POST is issued, no file is written and
\* the request is not tried again.
C16_RejectedWithoutEffect ==
  (caller = "server" /\ provider = "none")
    => /\ pc = "thrown"
       /\ thrown = "No image generation provider is available. Please set either GEMINI_API_KEY or OPENROUTER_API_KEY environment variable."
       /\ sent = <<>> /\ parts = <<>>
       /\ ~InSave /\ attempted = <<>> /\ savedFiles = <<>>
       /\ result = NoResult

C16_Witness ==
  /\ caller = "server" /\ provider = "none" /\ pc = "thrown"
  /\ args.save_to_file /\ args.provider = "replicate"

\* the generation of the call in progress returned success = true
GenerationSucceeded ==
  /\ caller = "server" /\ outcome # NoOutcome
  /\ ParseResponse(provider, args, outcome).success

\* C17: once the generation has returned success = true, no failure of the
\* persistence step (creating the output directory, fetching or writing an
\* image) changes the success flag or the images of the result; the caller
\* still receives the result.
C17_PersistenceIsBestEffort ==
  GenerationSucceeded
    => /\ pc # "thrown"
       /\ result.success
       /\ result.images = ParseResponse(provider, args, outcome).images

---------------------------------------------------------------------------
(* Reference images *)

\* more than one of path, url and base64 is set
MultiSource(image) ==
  Cardinality({f \in {"path", "url", "base64"} : TruthySeq(image[f])}) > 1

\* the MIME type sent for a reference image that gives one
MimeOf(image) == IF TruthySeq(image.mimeType) THEN image.mimeType ELSE PngMime

\* what is sent for the image when it is resolved from the local path first,
\* then from the remote URL, then from the inline base64
PriorityData(p, image) ==
  IF p = "gemini"
  THEN IF TruthySeq(image.path) THEN FileBase64
       ELSE IF TruthySeq(image.url) THEN UrlBase64
       ELSE StripDataUriPrefix(image.base64)
  ELSE IF TruthySeq(image.path) THEN DataUri(MimeOf(image), FileBase64)
       ELSE IF TruthySeq(image.url) THEN image.url
       ELSE DataUri(MimeOf(image), StripDataUriPrefix(image.base64))

\* the image data an element of the payload carries
ElementData(element) ==
  IF "inline_data" \in DOMAIN element THEN element.inline_data.data
  ELSE element.image_url.url

\* the elements of a payload sent for reference image k
ElementsOf(payload, k) ==
  {j \in 1..Len(payload) : payload[j].origin = "image" /\ payload[j].index = k}

\* C18: a reference image that sets more than one of path, url and base64 is
\* resolved from the path first, then from the url, then from the base64,
\* and exactly one image is sent for it.
C18_SourcePriority ==
  \A n \in 1..Len(sent) : \A k \in 1..Len(args.images) :
    MultiSource(args.images[k])
      => /\ Cardinality(ElementsOf(sent[n], k)) = 1
         /\ \A j \in ElementsOf(sent[n], k) :
              ElementData(sent[n][j]) = PriorityData(provider, args.images[k])

\* C19: generateImage called with a reference image whose local file does
\* not exist raises an Error to its caller instead of returning a result.
C19_MissingFileThrows ==
  [][GeminiAddImage(FALSE, "ok", UndefinedSeq) => pc' = "thrown"]_vars

\* the reference images a payload carries
ReferenceImagesIn(payload) ==
  Cardinality({j \in 1..Len(payload) : payload[j].origin = "image"})

\* C20: at most 3 reference images are transmitted to the backend, whatever
\* the length of the images list of the request.
C20_AtMostThreeImages ==
  \A n \in 1..Len(sent) : ReferenceImagesIn(sent[n]) <= MaxReferenceImages

---------------------------------------------------------------------------
(* The pre-generated canvas images *)

\* the ratio (numerator, denominator) of each pre-generated image
CannedRatio(key) ==
  CASE key = "square"     -> <<1, 1>>
    [] key = "landscape"  -> <<16, 9>>
    [] key = "portrait"   -> <<9, 16>>
    [] key = "widescreen" -> <<16, 10>>

Abs(n) == IF n < 0 THEN -n ELSE n

\* |w/h - r1| <= |w/h - r2|, for h > 0
NotFarther(w, h, r1, r2) ==
  Abs(w * r1[2] - r1[1] * h) * r2[2] <= Abs(w * r2[2] - r2[1] * h) * r1[2]

\* the pre-generated images whose ratio is nearest to w/h
NearestCanned(w, h) ==
  {key \in {"square", "landscape", "portrait", "widescreen"} :
     \A other \in {"square", "landscape", "portrait", "widescreen"} :
       NotFarther(w, h, CannedRatio(key), CannedRatio(other))}

\* C21: after a synthesis failure generateBlankImageSync selects, for every
\* descriptor, the pre-generated image whose ratio is nearest to the
\* descriptor's width/height; the widescreen descriptor (1024x640) selects
\* the 16:10 image and the landscape descriptor the 16:9 image.
C21_NearestCannedImage ==
  \A k \in 1..Len(parts) :
    (/\ parts[k].origin = "canvas"
     /\ CanvasImage(parts[k]).source = "canned"
     /\ RatioIsFinite(aspectRatioConfig) /\ aspectRatioConfig.width > 0)
      => CanvasImage(parts[k]).key \in
           NearestCanned(aspectRatioConfig.width, aspectRatioConfig.height)

---------------------------------------------------------------------------
(* Backend B response parsing *)

\* a result of OpenRouterProvider.generateImage built from a parsed body
OpenRouterParsed ==
  /\ pc = "returned" /\ provider = "openrouter"
  /\ outcome.kind = "json" /\ result.success

\* the first choice's message of the parsed body
FirstMessage == outcome.data.choices[1].message

\* the entries of message.images that carry an image_url.url
UsableEntries(message) ==
  IF "images" \in DOMAIN message THEN SelectSeq(message.images, ImgHasUrl)
  ELSE <<>>

\* the result image that stands for one URL of the images field
IsImageOf(image, url) ==
  IF startsWith(url, <<"d", "a", "t", "a", ":">>)
  THEN image.type = "base64" /\ image.data = url
  ELSE image.type = "url" /\ image.url = url

\* C22 (as amended): the images field wins whenever it yields an image, its
\* usable entries are returned in order, and the text content is scanned only
\* when the field yielded nothing; the scan returns at most one image, the
\* whole content when it begins with "data:image", else its first http(s) URL.
C22_FieldThenContent ==
  OpenRouterParsed =>
    LET usable == UsableEntries(FirstMessage)
    IN  IF usable # <<>>
        THEN /\ Len(result.images) = Len(usable)
             /\ \A k \in 1..Len(usable) :
                  IsImageOf(result.images[k], usable[k].image_url.url)
        ELSE IF ContentIsText(FirstMessage)
        THEN LET content == FirstMessage.content.string
             IN  /\ Len(result.images) <= 1
                 /\ startsWith(content, <<"d", "a", "t", "a", ":", "i", "m", "a", "g", "e">>)
                      => /\ Len(result.images) = 1
                         /\ result.images[1].type = "base64"
                         /\ result.images[1].data = content
                 /\ (~startsWith(content, <<"d", "a", "t", "a", ":", "i", "m", "a", "g", "e">>) /\ result.images # <<>>)
                      => /\ result.images[1].type = "url"
                         /\ startsWith(result.images[1].url, <<"h", "t", "t", "p">>)
                         /\ includes(content, result.images[1].url)
        ELSE result.images = <<>>

\* the images field yielded nothing and the content supplied the image
C22_Witness ==
  /\ OpenRouterParsed
  /\ "images" \in DOMAIN FirstMessage
  /\ UsableEntries(FirstMessage) = <<>>
  /\ Len(result.images) = 1

\* C22 (as stated): with an images field the result holds exactly its entries
\* and the content is not scanned; without it the scan prefers a data URI
\* embedded anywhere in the content to a URL.
C22_Original ==
  OpenRouterParsed =>
    IF "images" \in DOMAIN FirstMessage
    THEN /\ Len(result.images) = Len(FirstMessage.images)
         /\ \A k \in 1..Len(result.images) :
              /\ ImgHasUrl(FirstMessage.images[k])
              /\ IsImageOf(result.images[k], FirstMessage.images[k].image_url.url)
    ELSE /\ Len(result.images) <= 1
         /\ (ContentIsText(FirstMessage)
             /\ includes(FirstMessage.content.string, <<"d", "a", "t", "a", ":", "i", "m", "a", "g", "e">>))
              => /\ Len(result.images) = 1
                 /\ result.images[1].type = "base64"

---------------------------------------------------------------------------
(* The extension of a written file *)

\* the text between "data:image/" at the start of s and the next ';',
\* UndefinedSeq when s has no such prefix
DataUriSubtype(s) ==
  IF startsWith(s, <<"d", "a", "t", "a", ":", "i", "m", "a", "g", "e", "/">>) /\ indexOf(s, <<";">>) # -1
  THEN substring(s, 11, indexOf(s, <<";">>))
  ELSE UndefinedSeq

\* the text after the first '/' of a content-type header, up to a second '/'
ContentSubtype(contentType) ==
  IF TruthySeq(contentType) THEN SplitSlashSecond(contentType) ELSE UndefinedSeq

HasFormat(image) == "format" \in DOMAIN image /\ TruthySeq(image.format)

\* the file name ends with '.' and ext
HasExt(e, ext) == endsWith(e.filename, <<".">> \o ext)

\* C23 (as amended): an inline image gets its format field if set, else the
\* MIME subtype of its data-URI prefix, else 'png'; a remote image gets the
\* subtype of the content-type header, else 'png', whatever its format field;
\* a subtype 'jpeg' read from a data URI or a header is written 'jpg'.
C23_ExtensionPriority ==
  \A j \in 1..Len(writes) :
    LET e == writes[j]
        image == e.image
    IN  IF image.type = "base64"
        THEN IF HasFormat(image) THEN HasExt(e, image.format)
             ELSE IF TruthySeq(DataUriSubtype(image.data))
             THEN HasExt(e, JpegToJpg(DataUriSubtype(image.data)))
             ELSE HasExt(e, PngFormat)
        ELSE IF TruthySeq(ContentSubtype(e.contentType))
             THEN HasExt(e, JpegToJpg(ContentSubtype(e.contentType)))
             ELSE HasExt(e, PngFormat)

\* a format field overrode a different data-URI subtype
C23_Witness ==
  \E j \in 1..Len(writes) :
    /\ writes[j].image.type = "base64" /\ HasFormat(writes[j].image)
    /\ DataUriSubtype(writes[j].image.data) = <<"j", "p", "e", "g">>
    /\ HasExt(writes[j], <<"w", "e", "b", "p">>)

\* C23 (as stated): the extension is the image's format field if set;
\* otherwise the MIME subtype of its data-URI prefix; otherwise, for a remote
\* image, the subtype of the content-type header; otherwise 'png'.
C23_Original ==
  \A j \in 1..Len(writes) :
    LET e == writes[j]
        image == e.image
    IN  IF HasFormat(image) THEN HasExt(e, image.format)
        ELSE IF image.type = "base64" /\ TruthySeq(DataUriSubtype(image.data))
        THEN HasExt(e, DataUriSubtype(image.data))
        ELSE IF image.type = "url" /\ TruthySeq(ContentSubtype(e.contentType))
        THEN HasExt(e, ContentSubtype(e.contentType))
        ELSE HasExt(e, PngFormat)

---------------------------------------------------------------------------
(* Where the files are written *)

\* the path names a file directly inside the output directory
InsideOutputDir(path) ==
  LET segments == SplitPath(path)
  IN  /\ Len(segments) = 2
      /\ segments[1] = OutputDir
      /\ segments[2] \notin {<<>>, <<".">>, <<".", ".">>}

\* C24: every path saveImages writes is a file located directly inside the
\* output directory 'generated_images', for every base filename and every
\* format tag, data-URI MIME type and content-type header.
C24_WritesStayInOutputDir ==
  \A j \in 1..Len(writes) : InsideOutputDir(writes[j].path)

---------------------------------------------------------------------------
(* The base name of a written file *)

\* ASCII letters, digits, '_' and '-'
SafeChars ==
  {LowerChars[k] : k \in 1..Len(LowerChars)} \cup {UpperChars[k] : k \in 1..Len(UpperChars)}
  \cup {DigitChars[k] : k \in 1..Len(DigitChars)} \cup {"_", "-"}

\* the string saveImages hands to sanitizeFilename
BaseNameArgument ==
  IF TruthySeq(saveArgs.baseFilename) THEN saveArgs.baseFilename
  ELSE <<"g", "e", "n", "e", "r", "a", "t", "e", "d", "_", "i", "m", "a", "g", "e">>

\* C25: sanitizeFilename returns at most 64 characters, all of them ASCII
\* letters, digits, '_' or '-', and returns its own output unchanged.
C25_SanitizeFilename ==
  InSave =>
    LET safeBase == sanitizeFilename(BaseNameArgument)
    IN  /\ Len(safeBase) <= MaxBaseLen
        /\ \A k \in 1..Len(safeBase) : safeBase[k] \in SafeChars
        /\ sanitizeFilename(safeBase) = safeBase
        /\ \A j \in 1..Len(writes) :
             startsWith(writes[j].filename, safeBase \o <<"_">>)

\* a file was written under a name that was both cut and cleaned
C25_Witness ==
  /\ InSave /\ writes # <<>>
  /\ Len(BaseNameArgument) > MaxBaseLen
  /\ \E k \in 1..Len(BaseNameArgument) : BaseNameArgument[k] \notin SafeChars
  /\ Len(sanitizeFilename(BaseNameArgument)) = MaxBaseLen

---------------------------------------------------------------------------
(* Reference images without a source *)

\* the entry sets none of path, url and base64
Sourceless(image) ==
  ~TruthySeq(image.path) /\ ~TruthySeq(image.url) /\ ~TruthySeq(image.base64)

\* the image elements of a payload, in payload order
ImageElements(payload) == SelectSeq(payload, LAMBDA e : e.origin = "image")

\* the adapter has a branch for one of the sources the entry sets
HasBranch(p, image) ==
  \/ TruthySeq(image.base64) \/ TruthySeq(image.url)
  \/ p = "gemini" /\ TruthySeq(image.path)

\* the data the adapter sends for an entry, from that entry alone
SentData(p, image) ==
  IF p = "gemini"
  THEN IF TruthySeq(image.base64) THEN StripDataUriPrefix(image.base64)
       ELSE IF TruthySeq(image.path) THEN FileBase64
       ELSE UrlBase64
  ELSE IF TruthySeq(image.base64)
       THEN DataUri(MimeOf(image), StripDataUriPrefix(image.base64))
       ELSE image.url

\* generateImage ended before the POST
EndedBeforePost ==
  /\ pc \in {"returned", "thrown"} /\ caller \in {"server", "direct"}
  /\ sent = <<>> /\ provider # "none" /\ isAvailable(KeyOf(provider))

\* C26: a reference-image entry with none of path, URL and inline base64
\* contributes no part to the payload and raises no error, and the parts of
\* the other entries, and their order, are what they are without it.
C26_SourcelessEntryIsSkipped ==
  /\ \A n \in 1..Len(sent) :
       LET elements == ImageElements(sent[n])
       IN  /\ \A k \in 1..Len(args.images) :
                Sourceless(args.images[k]) => ElementsOf(sent[n], k) = {}
           /\ \A j \in 1..(Len(elements) - 1) :
                elements[j].index < elements[j + 1].index
           /\ \A k \in 1..Len(args.images) :
                HasBranch(provider, args.images[k])
                  => /\ Cardinality(ElementsOf(sent[n], k)) = 1
                     /\ \A j \in ElementsOf(sent[n], k) :
                          ElementData(sent[n][j]) = SentData(provider, args.images[k])
  /\ EndedBeforePost
       => /\ imgIdx \in 1..Len(args.images)
          /\ ~Sourceless(args.images[imgIdx])

\* a payload went out for a request whose first entry has no source and
\* whose second entry has one
C26_Witness ==
  /\ Len(args.images) = 2
  /\ Sourceless(args.images[1]) /\ ~Sourceless(args.images[2])
  /\ \E n \in 1..Len(sent) :
       /\ ElementsOf(sent[n], 1) = {}
       /\ Cardinality(ElementsOf(sent[n], 2)) = 1

---------------------------------------------------------------------------
(* Two requests in flight *)

\* the fields of a GenerationResult the caller is answered with
ResultFields(r) ==
  [success |-> r.success, provider |-> r.provider, images |-> ImagesOf(r),
   error |-> IF "error" \in DOMAIN r THEN r.error ELSE Undefined]

\* the result of the request when it is handled alone and the backend
\* answers the same
ResultAlone(l) ==
  ParseResponse(selectProvider(l.args.provider, geminiKey, openrouterKey),
                l.args, l.outcome)

\* the request has been answered by the backend and its result is built
Answered(l) ==
  /\ l.caller = "server" /\ l.outcome.kind # "none"
  /\ l.pc \in {"mkdir", "saving", "returned"}

---------------------------------------------------------------------------
(* The two adapters side by side *)

\* the entries Backend A transmits an image for: every entry with a source
TransmittedByGemini(images) ==
  {k \in 1..Len(images) : GeminiImageSource(images[k]) # "none"}

\* C28: the reference images Backend B transmits correspond one-to-one and in
\* order to those Backend A transmits for the same request: each adapter
\* sends one image element for every entry that has a source, whichever
\* source kind (local path, remote URL, inline base64) the entry uses.
C28_SameReferenceImages ==
  \A n \in 1..Len(sent) :
    LET elements == ImageElements(sent[n])
        entries == TransmittedByGemini(args.images)
    IN  /\ Len(elements) = Cardinality(entries)
        /\ \A k \in entries : Cardinality(ElementsOf(sent[n], k)) = 1
        /\ \A j \in 1..(Len(elements) - 1) :
             elements[j].index < elements[j + 1].index

---------------------------------------------------------------------------
(* Aspect control: prompt and payload *)

\* the payload carries the canvas image
HasCanvas(payload) == \E j \in 1..Len(payload) : payload[j].origin = "canvas"

\* the text of the payload is the request's prompt composed with the
\* fill-the-canvas clause of the descriptor, and differs from the prompt
\* composed without it
HasAspectClause(payload) ==
  /\ payload[1].text = buildPrompt(provider, args, parseAspectRatio(args.aspect_ratio))
  /\ payload[1].text # buildPrompt(provider, args, NullConfig)

\* C29: in every request an adapter sends, the canvas image is present iff
\* the composed prompt contains the fill-the-canvas clause, and both hold iff
\* parseAspectRatio returned a descriptor for the request's aspect token.
C29_PromptAndCanvasAgree ==
  \A n \in 1..Len(sent) :
    LET descriptor == parseAspectRatio(args.aspect_ratio).tag # "null"
    IN  /\ HasCanvas(sent[n]) <=> HasAspectClause(sent[n])
        /\ HasAspectClause(sent[n]) <=> descriptor
        /\ ~descriptor
             => sent[n][1].text = buildPrompt(provider, args, NullConfig)

\* a request with a custom ratio went out with clause and canvas
C29_Witness ==
  \E n \in 1..Len(sent) :
    /\ HasCanvas(sent[n]) /\ HasAspectClause(sent[n])
    /\ aspectRatioConfig.tag = "config" /\ aspectRatioConfig.name = "6:7"

---------------------------------------------------------------------------
(* Backend A: resolving the reference images, then the POST *)

\* the entry is resolved by I/O: a file read or a fetch
NeedsResolving(image) == GeminiImageSource(image) \in {"path", "url"}

\* generateImage of the Gemini adapter returned a failure before any answer
\* of the backend
ResolveFailed ==
  /\ provider = "gemini" /\ caller \in {"server", "direct"}
  /\ pc = "returned" /\ outcome = NoOutcome
  /\ result # NoResult /\ ~result.success

====
